---- MODULE Spec2Model ----
(***************************************************************************)
(* A model of snekrpc's protocol engine (src/snekrpc/protocol.py), the     *)
(* client proxy call path (src/snekrpc/service/__init__.py) and the        *)
(* pieces of the codec and interface layers they rely on.                  *)
(*                                                                         *)
(* One client (a single-threaded caller), one connection, one server       *)
(* handler thread.  The two directions of the connection are FIFO queues   *)
(* of frames.  Text (exception names, messages, tracebacks, codec names on *)
(* the wire) is a sequence of one-character strings, so that slicing and   *)
(* argument unpacking act on it as they do in Python.                      *)
(***************************************************************************)
EXTENDS Integers, Sequences, FiniteSets, TLC

\* ------------------------------------------------------------------ bounds

\* Number of Commands the caller issues on the connection.
MaxCalls == 2

\* Longest stream (uploaded argument or produced result).
MaxLen == 2

\* Number of times the connection is lost at the server's end.
MaxLost == 1

\* Number of times a callable run under a retry policy of its own fails.
MaxFails == 3

\* Longest iterator handed to a StreamInitiator.
MaxItems == 3

\* Number of payloads sent on a socket, and the longest of them in bytes.
MaxFrames == 2

MaxPayload == 2

\* Number of service objects created on a server.
MaxServices == 4

\* Number of connections made to a listening transport, and of failures of
\* its accept loop.
MaxConns == 3

MaxFailures == 1

\* Number of attributes read from a proxy.
MaxAccesses == 3

\* Number of parameters of a callable or of a description of one.
MaxParams == 2

\* Number of connections made through an HTTP transport.
MaxConnects == 1

\* Number of threads that use the registries, of calls of init() and of
\* calls of get() or names() each of them makes.
MaxThreads == 2

MaxInits == 2

MaxReads == 1

\* Number of calls of stop() on a transport whose serve() is starting, of
\* connections it accepts and of accepts that fail.
MaxStops == 1

MaxAccepted == 1

MaxAcceptErrors == 1

\* Longest stream uploaded to a command that answers with a stream, and the
\* largest number of messages a direction of the connection holds unread.
MaxUpload == 3

MaxBuffer == 2

\* Most connections a Client dials, most response streams its callers hold,
\* and most elements drawn from one of them.
MaxDials == 3

MaxStreams == 3

MaxDrawn == 1

\* ------------------------------------------------------------------- text

N_KeyError == <<"K", "e", "y", "E", "r", "r", "o", "r">>
N_AttributeError ==
    <<"A", "t", "t", "r", "i", "b", "u", "t", "e", "E", "r", "r", "o", "r">>
N_TypeError == <<"T", "y", "p", "e", "E", "r", "r", "o", "r">>
N_MessageError ==
    <<"M", "e", "s", "s", "a", "g", "e", "E", "r", "r", "o", "r">>
N_HandshakeError ==
    <<"H", "a", "n", "d", "s", "h", "a", "k", "e", "E", "r", "r", "o", "r">>
N_EncodeError == <<"E", "n", "c", "o", "d", "e", "E", "r", "r", "o", "r">>
N_DecodeError == <<"D", "e", "c", "o", "d", "e", "E", "r", "r", "o", "r">>
N_ParameterError ==
    <<"P", "a", "r", "a", "m", "e", "t", "e", "r", "E", "r", "r", "o", "r">>
N_ReceiveInterrupted ==
    <<"R", "e", "c", "e", "i", "v", "e", "I", "n", "t", "e", "r", "r", "u", "p", "t", "e", "d">>
N_TransportError == <<"T", "r", "a", "n", "s", "p", "o", "r", "t", "E", "r", "r", "o", "r">>
N_RemoteError == <<"R", "e", "m", "o", "t", "e", "E", "r", "r", "o", "r">>
N_RegistryError ==
    <<"R", "e", "g", "i", "s", "t", "r", "y", "E", "r", "r", "o", "r">>
N_ProtocolOpError ==
    <<"P", "r", "o", "t", "o", "c", "o", "l", "O", "p", "E", "r", "r", "o", "r">>
\* a user exception class with a three-letter name
N_Bad == <<"B", "a", "d">>

\* An exception instance: class name, str(exc), and whether the class is a
\* TransportError (errors.py: SendInterrupted and ReceiveInterrupted are).
Exc(name, message, transport) ==
    [name |-> name, message |-> message, transport |-> transport]

NoExc == Exc(<<>>, <<>>, FALSE)

\* errors.MessageError and errors.HandshakeError, which protocol.py raises.
\* errors.py does not hold these two classes; they are taken to be protocol
\* errors like ProtocolOpError, which is not a TransportError.
MessageError == Exc(N_MessageError, <<>>, FALSE)

HandshakeError == Exc(N_HandshakeError, <<>>, FALSE)

\* ---------------------------------------------------------------- messages

CommandMessage(service_name, command_name, args, kwargs) ==
    [tag |-> "CommandMessage", service_name |-> service_name,
     command_name |-> command_name, args |-> args, kwargs |-> kwargs]

DataMessage(data) == [tag |-> "DataMessage", data |-> data]

ErrorMessage(name, message, traceback) ==
    [tag |-> "ErrorMessage", name |-> name, message |-> message,
     traceback |-> traceback]

StreamStartMessage == [tag |-> "StreamStartMessage"]

StreamEndMessage == [tag |-> "StreamEndMessage"]

\* ------------------------------------------------------------------ values

\* A plain argument or result value.
Val(v) == [type |-> "val", v |-> v]

\* A generator object that will produce `items`.
Gen(items) == [type |-> "gen", items |-> items]

\* The wire form of a generator: {'__generator__': None}.
Sentinel == [type |-> "sentinel"]

\* A receive-stream iterator bound to the connection.
RecvStreamArg == [type |-> "recv_stream"]

\* A value no codec can encode (an arbitrary object).
Unencodable == [type |-> "object"]

isgenerator(arg) == arg.type \in {"gen", "recv_stream"}

\* codec.encode hook: a generator becomes the sentinel.
encode(obj) == IF obj.type = "gen" THEN Sentinel ELSE obj

\* codec.decode hook: the sentinel becomes a generator that yields nothing.
decode(obj) == IF obj.type = "sentinel" THEN Gen(<<>>) ELSE obj

MapSeq(Op(_), s) == [i \in 1..Len(s) |-> Op(s[i])]

KW(name, arg) == [name |-> name, arg |-> arg]

EncodeKW(kw) == KW(kw.name, encode(kw.arg))

DecodeKW(kw) == KW(kw.name, decode(kw.arg))

\* Can the codec serialise this message?
Encodable(msg) ==
    CASE msg.tag = "DataMessage" -> msg.data.type # "object"
      [] msg.tag = "CommandMessage" ->
            /\ \A i \in 1..Len(msg.args) : msg.args[i].type # "object"
            /\ \A i \in 1..Len(msg.kwargs) : msg.kwargs[i].arg.type # "object"
      [] OTHER -> TRUE

\* Codec._encode on a message that can be encoded: the payload of a frame.
EncodeMsg(msg) ==
    CASE msg.tag = "CommandMessage" ->
            CommandMessage(msg.service_name, msg.command_name,
                           MapSeq(encode, msg.args), MapSeq(EncodeKW, msg.kwargs))
      [] msg.tag = "DataMessage" -> DataMessage(encode(msg.data))
      [] OTHER -> msg

\* Codec._decode followed by msgspec.convert.
DecodeMsg(payload) ==
    CASE payload.tag = "CommandMessage" ->
            CommandMessage(payload.service_name, payload.command_name,
                           MapSeq(decode, payload.args),
                           MapSeq(DecodeKW, payload.kwargs))
      [] payload.tag = "DataMessage" -> DataMessage(decode(payload.data))
      [] OTHER -> payload

\* ------------------------------------------------------------------ frames

HANDSHAKE == <<"NUL">>

\* Codec names as they travel in the handshake reply.
CodecNames == {<<"m", "s", "g", "p", "a", "c", "k">>, <<"j", "s", "o", "n">>}

\* A frame on the wire.  `cmd` is bookkeeping only: the number of the Command
\* the frame was written for (0 for handshake frames).
RawFrame(bytes, cmd) == [kind |-> "raw", bytes |-> bytes, cmd |-> cmd]

EncFrame(codec, msg, cmd) ==
    [kind |-> "enc", codec |-> codec, payload |-> EncodeMsg(msg), cmd |-> cmd]

\* What recv() returns once the peer has closed: b''.
EofFrame == [kind |-> "eof"]

\* ------------------------------------------------------- receiving messages

\* A handshake reply that names the default codec whatever the server's is.
HandshakeReplyDefault(codec) == HANDSHAKE \o <<"m", "s", "g", "p", "a", "c", "k">>

\* res_handshake's reply: HANDSHAKE + codec.encode().
HandshakeReply(codec) == HANDSHAKE \o codec

\* Protocol.res_handshake up to its return or its second recv().  `replied` says
\* that the handshake reply has been sent and the second recv() is pending.
ResHandshake(q, replied, codec) ==
    IF q = <<>> THEN [st |-> "block"]
    ELSE IF ~replied /\ Head(q).kind = "raw" /\ Head(q).bytes = HANDSHAKE
    THEN [st |-> "reply", rest |-> Tail(q),
          sent |-> RawFrame(HandshakeReply(codec), 0)]
    ELSE [st |-> "data", data |-> Head(q),
          rest |-> IF Head(q).kind = "eof" THEN q ELSE Tail(q)]

\* Protocol.recv_msg on a frame res_handshake returned.
\*   "none": the peer closed;  "msg": a decoded message;  "exc": it raised.
RecvMsgData(data, codec) ==
    IF data.kind = "eof" THEN [st |-> "none", cmd |-> 0]
    ELSE IF codec = <<>>
    THEN [st |-> "exc", exc |-> Exc(N_TransportError, <<>>, TRUE), cmd |-> data.cmd]
    ELSE IF data.kind = "raw" \/ data.codec # codec
    THEN [st |-> "exc", exc |-> Exc(N_DecodeError, <<>>, FALSE), cmd |-> data.cmd]
    ELSE [st |-> "msg", msg |-> DecodeMsg(data.payload), cmd |-> data.cmd]

\* Protocol.recv_msg against a queue that already holds the frames it needs
\* (used where the reader runs inside a command).  `sent` are the handshake
\* replies it wrote.
RecvMsg(q, codec) ==
    LET r1 == ResHandshake(q, FALSE, codec)
        r2 == IF r1.st = "reply" THEN ResHandshake(r1.rest, TRUE, codec) ELSE r1
        sent == IF r1.st = "reply" THEN <<r1.sent>> ELSE <<>>
    IN  IF r2.st = "block" THEN [st |-> "block", rest |-> q, sent |-> sent]
        ELSE [rest |-> r2.rest, sent |-> sent] @@ RecvMsgData(r2.data, codec)

\* ------------------------------------------------------------- recv_stream

\* `case DataMessage(data)` / `case ErrorMessage(error)`: a class pattern with
\* one positional sub-pattern binds the first field of the message.
MatchFirst(msg) ==
    CASE msg.tag = "DataMessage" -> msg.data
      [] msg.tag = "ErrorMessage" -> msg.name

\* errors.RemoteError, a dataclass of (name, msg, traceback).
RemoteError(name, msg, traceback) ==
    [name |-> N_RemoteError,
     message |-> IF traceback # <<>> THEN traceback ELSE name \o <<":", " ">> \o msg,
     transport |-> FALSE,
     remote |-> [name |-> name, msg |-> msg, traceback |-> traceback]]

\* `errors.RemoteError(*error)`: the bound value is unpacked into the
\* positional parameters; a count other than three is a TypeError.
RemoteErrorUnpack(error) ==
    IF Len(error) = 3
    THEN RemoteError(<<error[1]>>, <<error[2]>>, <<error[3]>>)
    ELSE Exc(N_TypeError, <<>>, FALSE)

\* What Protocol.recv_stream does when next() resumes it after `yield data`:
\* control leaves the match statement and reaches the raise below it.
RecvStreamResume == "raise"

\* One pass of recv_stream's loop body on the result r of recv_msg.
RecvStreamOnMsg(r) ==
    CASE r.st = "none" ->
            [out |-> "raise", exc |-> Exc(N_ReceiveInterrupted, <<>>, TRUE)]
      [] r.st = "exc" -> [out |-> "raise", exc |-> r.exc]
      [] r.st = "msg" /\ r.msg.tag = "DataMessage" ->
            [out |-> "yield", val |-> MatchFirst(r.msg)]
      [] r.st = "msg" /\ r.msg.tag = "ErrorMessage" ->
            [out |-> "raise", exc |-> RemoteErrorUnpack(MatchFirst(r.msg))]
      [] r.st = "msg" /\ r.msg.tag = "StreamEndMessage" -> [out |-> "return"]
      [] OTHER -> [out |-> "raise", exc |-> MessageError]

\* recv_stream's prologue (started = False) on the result r of recv_msg.
RecvStreamStart(r) ==
    CASE r.st = "none" ->
            [out |-> "raise", exc |-> Exc(N_ReceiveInterrupted, <<>>, TRUE)]
      [] r.st = "exc" -> [out |-> "raise", exc |-> r.exc]
      [] r.st = "msg" /\ r.msg.tag = "StreamStartMessage" -> [out |-> "loop"]
      [] OTHER -> [out |-> "raise", exc |-> MessageError]

\* `want` successive next() calls on a recv_stream generator in state st
\* ("init", "loop", "yielded") reading from q.  end: "open" (suspended at a
\* yield), "stop" (returned), "raise", or "block" (q ran out).
\* RecvStreamRead is the part that follows a recv_msg with result r.
RECURSIVE RecvStreamRun(_, _, _, _, _), RecvStreamRead(_, _, _, _, _, _)
RecvStreamRun(q, codec, st, want, got) ==
    IF want = 0 THEN [rest |-> q, got |-> got, end |-> "open", exc |-> NoExc]
    ELSE IF st = "yielded"
    THEN IF RecvStreamResume = "raise"
         THEN [rest |-> q, got |-> got, end |-> "raise", exc |-> MessageError]
         ELSE RecvStreamRun(q, codec, "loop", want, got)
    ELSE RecvStreamRead(RecvMsg(q, codec), q, codec, st, want, got)

RecvStreamRead(r, q, codec, st, want, got) ==
    IF r.st = "block"
    THEN [rest |-> q, got |-> got, end |-> "block", exc |-> NoExc]
    ELSE IF st = "init"
    THEN IF RecvStreamStart(r).out = "loop"
         THEN RecvStreamRun(r.rest, codec, "loop", want, got)
         ELSE [rest |-> r.rest, got |-> got, end |-> "raise",
               exc |-> RecvStreamStart(r).exc]
    ELSE CASE RecvStreamOnMsg(r).out = "yield" ->
                 RecvStreamRun(r.rest, codec, "yielded", want - 1,
                               Append(got, RecvStreamOnMsg(r).val))
           [] RecvStreamOnMsg(r).out = "return" ->
                 [rest |-> r.rest, got |-> got, end |-> "stop", exc |-> NoExc]
           [] OTHER ->
                 [rest |-> r.rest, got |-> got, end |-> "raise",
                  exc |-> RecvStreamOnMsg(r).exc]

\* ------------------------------------------------------- services, commands

\* Server._services after construction and add_service('test').
Services == {"_meta", "test"}

\* What getattr(svc, name) finds on the test service.  "cmd" stands for any
\* method decorated with @snekrpc.command(); "__init__" is Service.__init__,
\* which takes no argument and returns None; "_name_" is the class attribute
\* holding the service name, a str.
Attrs ==
    [cmd |-> [callable |-> TRUE, marked |-> TRUE, anyargs |-> TRUE],
     __init__ |-> [callable |-> TRUE, marked |-> FALSE, anyargs |-> FALSE],
     _name_ |-> [callable |-> FALSE, marked |-> FALSE, anyargs |-> FALSE]]

AttrNames == {"cmd", "__init__", "_name_"}

\* Exceptions (subclasses of Exception) a command body may raise: two that
\* are no TransportError, and one that is.
BodyExcs ==
    {Exc(N_KeyError, <<"x">>, FALSE), Exc(N_Bad, <<"b">>, FALSE),
     Exc(N_ReceiveInterrupted, <<>>, TRUE)}

\* What the body of a command does when invoked:
\*   kind  "value": a plain function;  "gen": a generator function
\*   take  how far it iterates its stream argument before anything else:
\*         "none", "one" (for x in stream: break), "all" (for x in stream)
\*   n     the number of elements a generator produces
\*   end   "ok" (return / finish), "object" (the value returned, or the next
\*         element produced, cannot be encoded), "raise" (raises exc)
Body(kind, take, n, end, exc) ==
    [kind |-> kind, take |-> take, n |-> n, end |-> end, exc |-> exc]

\* The bodies of the test service's commands: null / echo / params (a value),
\* upstream (consumes its stream argument, wholly or in part, or ignores it),
\* downstream (produces n elements), dualstream (produces what it consumes),
\* and variants of these that fail.
Behaviours(hasStream) ==
    IF hasStream
    THEN {Body("value", take, 0, "ok", NoExc) : take \in {"none", "one", "all"}}
         \cup {Body("gen", "all", 1, "ok", NoExc),
               Body("value", "all", 0, "raise", Exc(N_KeyError, <<"x">>, FALSE))}
    ELSE {Body("value", "none", 0, end, NoExc) : end \in {"ok", "object"}}
         \cup {Body("value", "none", 0, "raise", exc) : exc \in BodyExcs}
         \cup {Body("gen", "none", n, "ok", NoExc) : n \in 0..MaxLen}
         \cup {Body("gen", "none", n, "raise", Exc(N_KeyError, <<"x">>, FALSE)) :
                 n \in 0..MaxLen}

\* The body of Service.__init__.
InitBehaviour == Body("value", "none", 0, "ok", NoExc)

\* The i-th element a generator command produces, and the value a plain
\* command returns (any value the codec can encode; None for null and for
\* Service.__init__).
Produced(i) == Val(10 + i)

Returned == Val(20)

\* The elements 1..n a generator produces, as Data messages.
ProducedData(n) == [i \in 1..n |-> DataMessage(Produced(i))]

\* The sending of a command's result (recv_cmd's last four lines) for a body
\* behaving as beh whose iteration of its stream argument went as c.
SendResult(beh, c) ==
    LET start == IF beh.kind = "gen" THEN <<StreamStartMessage>> ELSE <<>>
        res == [rest |-> c.rest, got |-> c.got, gotEnd |-> c.end, blocked |-> FALSE]
    IN  CASE c.end = "block" -> [blocked |-> TRUE]
          [] c.end = "raise" -> res @@ [out |-> start, exc |-> c.exc]
          [] beh.end = "raise" ->
                res @@ [out |-> start \o ProducedData(beh.n), exc |-> beh.exc]
          [] beh.end = "object" ->
                res @@ [out |-> start \o ProducedData(beh.n),
                        exc |-> Exc(N_EncodeError, <<>>, FALSE)]
          [] beh.kind = "gen" ->
                res @@ [out |-> start \o ProducedData(beh.n) \o <<StreamEndMessage>>,
                        exc |-> NoExc]
          [] OTHER -> res @@ [out |-> <<DataMessage(Returned)>>, exc |-> NoExc]

\* func(*args, **kwargs) and the sending of its result for a callable whose
\* body behaves as beh.  out: the messages written; exc: the exception that
\* leaves recv_cmd (NoExc if none); got, gotEnd: what the stream argument
\* yielded to the body and how its iteration ended.
RunCommand(beh, hasStream, q, codec) ==
    SendResult(beh,
               IF hasStream /\ beh.take # "none"
               THEN RecvStreamRun(q, codec, "init",
                                  IF beh.take = "one" THEN 1 ELSE Len(q) + 1, <<>>)
               ELSE [rest |-> q, got |-> <<>>, end |-> "unused", exc |-> NoExc])

\* recv_cmd's substitution of a receive stream for every generator argument.
RecvArg(arg) == IF isgenerator(arg) THEN RecvStreamArg ELSE arg

RecvKW(kw) == KW(kw.name, RecvArg(kw.arg))

HasStream(args, kwargs) ==
    \/ \E i \in 1..Len(args) : isgenerator(args[i])
    \/ \E i \in 1..Len(kwargs) : isgenerator(kwargs[i].arg)

\* Protocol.recv_cmd.  invoked: the attribute whose body ran ("" if none).
recv_cmd(msg, q, codec, beh) ==
    LET args == MapSeq(RecvArg, msg.args)
        kwargs == MapSeq(RecvKW, msg.kwargs)
        none == [blocked |-> FALSE, rest |-> q, out |-> <<>>, invoked |-> "",
                 args |-> <<>>, kwargs |-> <<>>, got |-> <<>>, gotEnd |-> "unused"]
    IN  IF msg.service_name \notin Services
        THEN none @@ [exc |-> Exc(N_KeyError, <<>>, FALSE)]
        ELSE IF msg.command_name \notin AttrNames
        THEN none @@ [exc |-> Exc(N_AttributeError, <<>>, FALSE)]
        ELSE LET func == Attrs[msg.command_name] IN
             IF ~func.callable
                \/ (~func.anyargs /\ (args # <<>> \/ kwargs # <<>>))
             THEN none @@ [exc |-> Exc(N_TypeError, <<>>, FALSE)]
             ELSE [invoked |-> msg.command_name, args |-> args, kwargs |-> kwargs]
                  @@ RunCommand(IF func.anyargs THEN beh ELSE InitBehaviour,
                                HasStream(args, kwargs), q, codec)

\* A send_err that formats the traceback whatever the server's setting.
send_errTraceback(exc, remote_tracebacks) ==
    ErrorMessage(exc.name, exc.message, <<"T", "b", " ">> \o exc.name)

\* Protocol.send_err: the Error message for an exception.
send_err(exc, remote_tracebacks) ==
    ErrorMessage(exc.name, exc.message,
                 IF remote_tracebacks THEN <<"T", "b", " ">> \o exc.name ELSE <<>>)

\* An exception handler that swallows every exception.
ExceptHandlerSilent(exc, remote_tracebacks) == <<>>

\* handle's except clauses: a TransportError is logged, any other exception is
\* sent to the peer.  The messages written.
ExceptHandler(exc, remote_tracebacks) ==
    IF exc.transport THEN <<>> ELSE <<send_err(exc, remote_tracebacks)>>

\* handle after recv_cmd ended as c: what it has written, the except clause
\* included.
AfterCommand(c, remote_tracebacks) ==
    IF c.blocked THEN c
    ELSE [returned |-> FALSE,
          sent |-> IF c.exc = NoExc THEN c.out
                   ELSE c.out \o ExceptHandler(c.exc, remote_tracebacks)]
         @@ c

\* A handler loop that ends once it has answered a message that is no Command.
handleLeavesOnOther(r, q, codec, beh, remote_tracebacks) ==
    LET idle == [blocked |-> FALSE, rest |-> q, invoked |-> "", args |-> <<>>,
                 kwargs |-> <<>>, got |-> <<>>, gotEnd |-> "unused"]
    IN  CASE r.st = "none" -> idle @@ [returned |-> TRUE, sent |-> <<>>, exc |-> NoExc]
          [] r.st = "exc" ->
                idle @@ [returned |-> FALSE, exc |-> r.exc,
                         sent |-> ExceptHandler(r.exc, remote_tracebacks)]
          [] r.st = "msg" /\ r.msg.tag = "CommandMessage" ->
                AfterCommand(recv_cmd(r.msg, q, codec, beh), remote_tracebacks)
          [] OTHER ->
                idle @@ [returned |-> TRUE, exc |-> MessageError,
                         sent |-> ExceptHandler(MessageError, remote_tracebacks)]

\* One pass of Protocol.handle's loop on the result r of recv_msg, with the
\* unread frames q.  returned: handle() returned.  sent: the messages written.
handle(r, q, codec, beh, remote_tracebacks) ==
    LET idle == [blocked |-> FALSE, rest |-> q, invoked |-> "", args |-> <<>>,
                 kwargs |-> <<>>, got |-> <<>>, gotEnd |-> "unused"]
    IN  CASE r.st = "none" -> idle @@ [returned |-> TRUE, sent |-> <<>>, exc |-> NoExc]
          [] r.st = "exc" ->
                idle @@ [returned |-> FALSE, exc |-> r.exc,
                         sent |-> ExceptHandler(r.exc, remote_tracebacks)]
          [] r.st = "msg" /\ r.msg.tag = "CommandMessage" ->
                AfterCommand(recv_cmd(r.msg, q, codec, beh), remote_tracebacks)
          [] OTHER ->
                idle @@ [returned |-> FALSE, exc |-> MessageError,
                         sent |-> ExceptHandler(MessageError, remote_tracebacks)]

\* ------------------------------------------------------------ sending (client)

\* The elements of an uploaded stream of length n.
UploadItems(n) == [i \in 1..n |-> Val(i)]

\* The generator arguments of a call, positional ones first.
Streams(args, kwargs) ==
    LET a == SelectSeq(args, isgenerator)
        IsGenKW(kw) == isgenerator(kw.arg)
        k == SelectSeq(kwargs, IsGenKW)
    IN  a \o [i \in 1..Len(k) |-> k[i].arg]

\* Protocol.send_stream: the messages for an iterable producing `items`.
send_stream(items) ==
    <<StreamStartMessage>> \o [i \in 1..Len(items) |-> DataMessage(items[i])]
    \o <<StreamEndMessage>>

\* What Protocol.send_cmd writes once the handshake is done: the Command, then
\* the stream argument if there is one.
SendCmdMessages(service_name, command_name, args, kwargs) ==
    LET st == Streams(args, kwargs) IN
    <<CommandMessage(service_name, command_name, args, kwargs)>>
    \o (IF st # <<>> THEN send_stream(st[1].items) ELSE <<>>)

Frames(codec, msgs, cmd) == [i \in 1..Len(msgs) |-> EncFrame(codec, msgs[i], cmd)]

\* --------------------------------------------------------- StreamInitiator

\* An iterator over `items` that has produced none of them yet; once they are
\* produced it raises if `fail`, and stops otherwise.
Iter(items, fail) == [items |-> items, fail |-> fail, pos |-> 0, ended |-> FALSE]

\* next(it): a value, "stop" (StopIteration) or "raise"; `it` is the iterator
\* afterwards.  An iterator that has stopped or raised stays exhausted.
IterNext(it) ==
    CASE it.pos < Len(it.items) ->
            [out |-> "value", val |-> it.items[it.pos + 1],
             it |-> [it EXCEPT !.pos = @ + 1]]
      [] it.pos >= Len(it.items) /\ it.fail /\ ~it.ended ->
            [out |-> "raise", it |-> [it EXCEPT !.ended = TRUE]]
      [] OTHER -> [out |-> "stop", it |-> [it EXCEPT !.ended = TRUE]]

\* A constructor that leaves the element it fetched out of the chain.
StreamInitiatorInitDrop(gen) ==
    CASE IterNext(gen).out = "raise" ->
            [pc |-> "raised", head |-> <<>>, gen |-> IterNext(gen).it]
      [] OTHER -> [pc |-> "ready", head |-> <<>>, gen |-> IterNext(gen).it]

\* StreamInitiator.__init__(gen): self._gen is itertools.chain([next(gen)], gen),
\* or gen itself if next(gen) stopped; an exception of next(gen) leaves the
\* constructor.  head is the list chained in front of gen.
StreamInitiatorInit(gen) ==
    CASE IterNext(gen).out = "value" ->
            [pc |-> "ready", head |-> <<IterNext(gen).val>>, gen |-> IterNext(gen).it]
      [] IterNext(gen).out = "stop" ->
            [pc |-> "ready", head |-> <<>>, gen |-> IterNext(gen).it]
      [] OTHER -> [pc |-> "raised", head |-> <<>>, gen |-> IterNext(gen).it]

\* next() on iter(StreamInitiator): `yield from self._gen` takes the chained
\* list first and then the iterator.
StreamInitiatorNext(s) ==
    IF s.head # <<>>
    THEN [s EXCEPT !.head = Tail(@), !.out = Append(@, Head(s.head))]
    ELSE CASE IterNext(s.gen).out = "value" ->
                 [s EXCEPT !.gen = IterNext(s.gen).it,
                           !.out = Append(@, IterNext(s.gen).val)]
           [] IterNext(s.gen).out = "stop" ->
                 [s EXCEPT !.gen = IterNext(s.gen).it, !.pc = "stopped"]
           [] OTHER -> [s EXCEPT !.gen = IterNext(s.gen).it, !.pc = "raised"]

\* An iterator about to be wrapped: pc is "new", then "ready" (constructed),
\* "stopped" or "raised"; out is what the consumer has been given.
Unwrapped(gen) == [pc |-> "new", head |-> <<>>, gen |-> gen, out |-> <<>>]

\* ------------------------------------------------- framing (transport/tcp.py)

\* io.DEFAULT_BUFFER_SIZE.
CHUNK_SIZE == 8192

Min(a, b) == IF a < b THEN a ELSE b

\* struct.pack('>I', n): four bytes, most significant first.
Pack(n) ==
    <<(n \div 16777216) % 256, (n \div 65536) % 256, (n \div 256) % 256, n % 256>>

\* struct.unpack('>I', buf)[0].
Unpack(buf) == buf[1] * 16777216 + buf[2] * 65536 + buf[3] * 256 + buf[4]

\* tcp.send: the bytes written for a payload.
SendBytes(data) == Pack(Len(data)) \o data

\* `chunk_size or CHUNK_SIZE`: 0 stands for None.
ChunkOr(chunk_size) == IF chunk_size = 0 THEN CHUNK_SIZE ELSE chunk_size

\* A recvsize that asks the socket for a whole chunk each time.
RecvSizeWantChunk(size, pos, chunk_size) == ChunkOr(chunk_size)

\* recvsize: the number of bytes it asks the socket for when it has read pos
\* of size bytes.
RecvSizeWant(size, pos, chunk_size) ==
    Min(size - pos, Min(size, ChunkOr(chunk_size)))

\* What a call returns or raises.
Return(val) == [out |-> "return", val |-> val]

Raising(name) == [out |-> "raise", val |-> name]

\* A recv that returns what it has read when the read is interrupted.
TcpRecvResultPartial(outcome, chunks) ==
    CASE outcome = "OSError" -> Raising(N_TransportError)
      [] OTHER -> Return(chunks)

\* tcp.recv around b''.join(recviter(...)): the chunks joined when recviter
\* finished, b'' on ReceiveInterrupted, TransportError on OSError.
TcpRecvResult(outcome, chunks) ==
    CASE outcome = "done" -> Return(chunks)
      [] outcome = "ReceiveInterrupted" -> Return(<<>>)
      [] outcome = "OSError" -> Raising(N_TransportError)

\* A socket pair: a sender that has sent no payload, and a receiver with the
\* given chunk_size outside recv().  sent: the payloads passed to send();
\* pending: bytes written and not yet arrived; stream: bytes arrived and not
\* yet read; closed: the sender's end is closed; pc: "idle", "size" (recvsize
\* for the length), "data" (recvsize for the payload), "closed" or "failed";
\* size, pos: recvsize's; buf: what the current recvsize has read; got: the
\* results of the recv() calls; taken: the number of bytes read in all;
\* errors: the number of socket errors.
SocketPair(chunk_size) ==
    [sent |-> <<>>, pending |-> <<>>, stream |-> <<>>, closed |-> FALSE,
     chunk_size |-> chunk_size, pc |-> "idle", size |-> 0, pos |-> 0,
     buf |-> <<>>, got |-> <<>>, taken |-> 0, errors |-> 0]

\* ------------------------------------------- the server's registry of services

\* No entry under a name of Server._services.
NoService == [cls |-> "", id |-> 0]

\* service.create(service, **service_args): a new instance of the service
\* class registered as cls, the id-th object created.  Its NAME is the name
\* the class is registered under.
CreateService(cls, id) == [cls |-> cls, id |-> id]

\* What a call on the server did: the method, the name it acted on, and the
\* name of the exception it raised (<<>> if it returned).
Did(op, name, exc) == [op |-> op, name |-> name, exc |-> exc]

\* Server.add_service(service, service_args, alias); alias "" stands for None.
\* The instance is stored under its name or alias.
add_service(sv, cls, alias) ==
    LET svc == CreateService(cls, sv.made + 1)
        name == IF alias = "" THEN svc.cls ELSE alias
    IN  [services |-> [sv.services EXCEPT ![name] = svc],
         made |-> sv.made + 1,
         last |-> Did("add_service", name, <<>>)]

\* Server.remove_service(name): del self._services[name].
remove_service(sv, name) ==
    IF sv.services[name] = NoService
    THEN [sv EXCEPT !.last = Did("remove_service", name, N_KeyError)]
    ELSE [sv EXCEPT !.services[name] = NoService,
                    !.last = Did("remove_service", name, <<>>)]

\* The names services are registered under: the metadata service's alias, the
\* names of the service classes, and one more alias.
RegNames == {"_meta", "meta", "echo", "x"}

\* Server.__init__: an empty registry, then add_service('meta', ..., '_meta').
NewServer ==
    add_service([services |-> [n \in RegNames |-> NoService], made |-> 0,
                 last |-> Did("", "", <<>>)],
                "meta", "_meta")

\* ------------------------------------------------ accept loop (transport/tcp.py)

\* A loop condition that never looks at the stop event.
LoopExitNever(stop) == FALSE

\* `while not stop.is_set()`: the loop is left when the event is set.
LoopExit(stop) == stop

\* serve's `try: sock.accept() except socket.timeout: continue`: what becomes
\* of an exception of accept().
AcceptExcept(exc) == IF exc = "timeout" THEN "continue" ELSE "propagate"

\* serve's `try: ctx.wrap_socket(...) except ssl.SSLError: ...; continue`.
WrapExcept(exc) == IF exc = "SSLError" THEN "continue" ELSE "propagate"

\* A transport inside serve(), after bind() and the clearing of its events;
\* tls: an ssl context was made (ssl_cert is set).  pc: "check" (the loop
\* condition), "accept", "wrap", "returned" or "raised" (serve() has);
\* stop, stopped: the two events; backlog: connections made and not yet
\* accepted; arrived: their number so far; cur: the connection accepted last;
\* handlers: connections whose handler thread runs; closed: those whose peer
\* has closed; started: the number of handler threads started; sinceStop: the
\* number of accept() calls that ended after stop was set; failures: the
\* number of accepts and TLS handshakes that failed.
Listening(tls) ==
    [tls |-> tls, pc |-> "check", stop |-> FALSE, stopped |-> FALSE,
     backlog |-> <<>>, arrived |-> 0, cur |-> 0, handlers |-> {}, closed |-> {},
     started |-> 0, sinceStop |-> 0, failures |-> 0]

\* utils.start_thread(self.handle, server, client_sock, addr), then the loop
\* condition again.
StartHandler(l, c) ==
    [l EXCEPT !.handlers = @ \cup {c}, !.started = @ + 1, !.pc = "check", !.cur = c]

\* An exception leaves serve(): `finally: stopped.set()`.
Propagate(l) == [l EXCEPT !.pc = "raised", !.stopped = TRUE]

\* One accept() call ended.
Counted(l) == [l EXCEPT !.sinceStop = IF l.stop THEN @ + 1 ELSE @]

\* --------------------------------------- serve() from its start (tcp.py, unix.py)

\* A discard_file that leaves the file where it is.
discard_fileKeeps(path) == path

\* utils.path.discard_file(path): os.remove(path), ENOENT ignored.  What is
\* at the path afterwards: "absent", "file" (a file left by an earlier run)
\* or "socket" (the file of the bound socket).
discard_file(path) == "absent"

\* sock.bind(self._path) on an AF_UNIX socket: the socket file is made, or
\* EADDRINUSE when the path exists; `failing` is any other failure of bind()
\* or listen().  A TCP bind touches no path.
SockBind(kind, path, failing) ==
    IF failing \/ (kind = "unix" /\ path # "absent")
    THEN [exc |-> "OSError", path |-> path]
    ELSE [exc |-> "", path |-> IF kind = "unix" THEN "socket" ELSE path]

\* A transport whose serve() is run by a thread that has just been started.
\* kind: "tcp" or "unix"; path: what is at the socket path; first: what was
\* there to begin with; pc: where serve() stands ("start", "clear", "check",
\* "accept", "finally", "discard", "returned", "raised"); exc: the exception
\* on its way out of serve(); stop, stopped: the two events; stops: the calls
\* of stop() made; joiner: "idle", "waiting" in join() or "joined";
\* accepted, failures: the connections accepted and the accepts that failed.
Serving(kind, path) ==
    [kind |-> kind, path |-> path, first |-> path, pc |-> "start", exc |-> "",
     stop |-> FALSE, stopped |-> FALSE, stops |-> 0, joiner |-> "idle",
     accepted |-> 0, failures |-> 0]

\* ------------------------------------------------------------ ServiceProxy

\* The names a remote service may declare as commands, in the order their
\* callables are made, and the names a caller may ask a proxy for.
CommandNames == <<"a", "b">>

ProxyAttrs == {"a", "b", "zz"}

\* The position of a declared name: the number of the callable wrap_command
\* made for it.
CommandId(name) == CHOOSE i \in 1..Len(CommandNames) : CommandNames[i] = name

\* ServiceProxy.__init__(name, client, command_metadata): metadata is
\* "fetched" (True: the commands the remote service declares, read from
\* _meta), "supplied" (a sequence of command specs) or "none" (False);
\* declared is the set of command names fetched or supplied.  commands is
\* self._commands: the callable cached under each name (0: no entry); made:
\* the number of callables wrap_call has made; seen: the callable each name
\* gave when it was first read (0: not read); last: the latest read, its
\* result and the exception it raised; accesses: the number of reads.
ServiceProxy(metadata, declared) ==
    [metadata |-> metadata, declared |-> declared,
     commands |-> [n \in ProxyAttrs |->
                     IF metadata # "none" /\ n \in declared THEN CommandId(n) ELSE 0],
     made |-> Len(CommandNames),
     seen |-> [n \in ProxyAttrs |-> 0],
     last |-> [name |-> "", result |-> 0, exc |-> <<>>],
     accesses |-> 0]

\* `if self._commands:` a dict is true when it has an entry.
Truthy(commands) == \E n \in DOMAIN commands : commands[n] # 0

\* ServiceProxy.__getattr__(cmd_name): the cached callable or AttributeError
\* when self._commands is true, a new wrap_call(self, cmd_name) otherwise.
getattr(px, cmd_name) ==
    LET out == IF Truthy(px.commands)
               THEN IF px.commands[cmd_name] # 0
                    THEN [result |-> px.commands[cmd_name], exc |-> <<>>, made |-> px.made]
                    ELSE [result |-> 0, exc |-> N_AttributeError, made |-> px.made]
               ELSE [result |-> px.made + 1, exc |-> <<>>, made |-> px.made + 1]
    IN  [px EXCEPT !.made = out.made,
                   !.last = [name |-> cmd_name, result |-> out.result, exc |-> out.exc],
                   !.seen[cmd_name] = IF @ = 0 THEN out.result ELSE @,
                   !.accesses = @ + 1]

\* ------------------------------------------------ signatures (utils/function.py)

\* A Python dict with string keys is a function on the set of its keys.
EmptyDict == <<>>

Has(d, k) == k \in DOMAIN d

Get(d, k, default) == IF k \in DOMAIN d THEN d[k] ELSE default

Pop(d, k) == [x \in DOMAIN d \ {k} |-> d[x]]

Put(d, k, v) == [x \in DOMAIN d \cup {k} |-> IF x = k THEN v ELSE d[x]]

Update(d, e) ==
    [x \in DOMAIN d \cup DOMAIN e |-> IF x \in DOMAIN e THEN e[x] ELSE d[x]]

\* A dict whose order of insertion matters (cmd_meta['params'], the
\* OrderedDict of dict_to_func) is a sequence of entries [key, val].
OHas(od, k) == \E i \in 1..Len(od) : od[i].key = k

OGet(od, k, default) ==
    IF OHas(od, k)
    THEN od[CHOOSE i \in 1..Len(od) : od[i].key = k].val
    ELSE default

OPop(od, k) == SelectSeq(od, LAMBDA e : e.key # k)

\* int(inspect.Parameter.kind).
POSITIONAL_ONLY == 0

POSITIONAL_OR_KEYWORD == 1

VAR_POSITIONAL == 2

KEYWORD_ONLY == 3

VAR_KEYWORD == 4

\* A Python value that a doc or a default holds: None, an int or a str, the
\* last two with their characters.  Empty is inspect.Parameter.empty.
PyValue(type, val) == [type |-> type, val |-> val]

NoneV == PyValue("NoneType", <<>>)

Empty == PyValue("empty", <<>>)

\* repr(value), and the value a literal evaluates to in a def statement.
Repr(v) ==
    IF v.type = "NoneType" THEN <<"N", "o", "n", "e">>
    ELSE IF v.type = "str" THEN <<"'">> \o v.val \o <<"'">>
    ELSE v.val

Eval(text) ==
    IF text = <<"N", "o", "n", "e">> THEN NoneV
    ELSE IF text[1] = "'" THEN PyValue("str", SubSeq(text, 2, Len(text) - 1))
    ELSE PyValue("int", text)

\* Characters of a name: \w of the regular expression tokenize.Name is a
\* letter, a digit or the underscore.
Letters == {"a", "b", "f", "i", "_"}

Digits == {"1", "2", "4"}

Keywords == {<<"i", "f">>}

\* is_identifier(value): _rx_ident matches (^\w+$), str.isidentifier() and
\* not keyword.iskeyword().
is_identifier(value) ==
    /\ Len(value) > 0 /\ \A i \in 1..Len(value) : value[i] \in Letters \cup Digits
    /\ Len(value) > 0 /\ value[1] \in Letters
        /\ \A i \in 1..Len(value) : value[i] \in Letters \cup Digits
    /\ value \notin Keywords

\* A callable: __name__, __doc__, the parameters of its signature (name,
\* kind, default), whether it is a generator function, what it calls
\* (body) and its _meta attribute.
Callable(name, doc, params, isgen, body, meta) ==
    [name |-> name, doc |-> doc, params |-> params, isgen |-> isgen,
     body |-> body, meta |-> meta]

Parameter(name, kind, default) == [name |-> name, kind |-> kind, default |-> default]

\* list[1:].
Rest(s) == IF s = <<>> THEN <<>> ELSE Tail(s)

\* func_to_dict, the body of `for param in sig.parameters.values()`: the
\* entry of one parameter.  entry.get('hint') is read from the entry just
\* made, which holds no hint.
ParamEntry(param, cmd_params) ==
    LET e0 == Put(Put(EmptyDict, "name", param.name), "kind", param.kind)
        hint == Get(e0, "hint", NoneV)
        e1 == IF param.default # Empty THEN Put(e0, "default", param.default) ELSE e0
        e2 == IF param.default # Empty /\ hint = NoneV /\ param.default # NoneV
              THEN Put(e1, "hint", param.default.type)
              ELSE e1
    IN  Update(e2, OGet(cmd_params, param.name, EmptyDict))

\* func_to_dict, `for name, meta in cmd_params.items()`: the entry of a
\* parameter that a decorator declared and the signature does not hold.
DeclaredEntry(e) ==
    LET meta == Put(e.val, "name", e.key)
    IN  IF Has(meta, "kind") THEN meta ELSE Put(meta, "kind", KEYWORD_ONLY)

\* func_to_dict(func, remove_self).
func_to_dict(func, remove_self) ==
    LET cmd_params == Get(func.meta, "params", <<>>)
        cmd_meta == Pop(func.meta, "params")
        parameters == IF remove_self THEN Rest(func.params) ELSE func.params
        inSig(k) == \E i \in 1..Len(parameters) : parameters[i].name = k
        left == SelectSeq(cmd_params, LAMBDA e : ~inSig(e.key))
        params == [i \in 1..Len(parameters) |-> ParamEntry(parameters[i], cmd_params)]
                      \o [i \in 1..Len(left) |-> DeclaredEntry(left[i])]
        d0 == Put(Put(Put(EmptyDict, "name", func.name), "doc", func.doc),
                  "params", params)
        d1 == IF Has(cmd_meta, "stream") THEN Put(d0, "stream", cmd_meta["stream"]) ELSE d0
        rest == Pop(cmd_meta, "stream")
        d2 == IF func.isgen THEN Put(d1, "isgen", TRUE) ELSE d1
    IN  IF rest # EmptyDict THEN Put(d2, "meta", rest) ELSE d2

\* dict_to_func: the text a parameter gives to the def statement (def_name)
\* and to the call of callback (name).
CallName(param) ==
    IF param["kind"] = VAR_POSITIONAL THEN <<"*">> \o param["name"]
    ELSE IF param["kind"] = VAR_KEYWORD THEN <<"*", "*">> \o param["name"]
    ELSE param["name"]

DefName(param) ==
    IF Has(param, "default")
    THEN CallName(param) \o <<"=">> \o Repr(param["default"])
    ELSE CallName(param)

\* The source text dict_to_func formats: the name, the parameters of the def
\* statement and the arguments of the call (each list joined by ', '), and
\* which of the two templates it is.
Source(name, definition, call, is_generator) ==
    [name |-> name, definition |-> definition, call |-> call, gen |-> is_generator]

NoSource == Source(<<>>, <<>>, <<>>, FALSE)

NoCallable == Callable(<<>>, NoneV, <<>>, FALSE, "", EmptyDict)

\* One parameter of a def statement as Python reads it: *name, **name, name
\* or name=literal.  No '/' and no bare '*' is ever written, so what is read
\* is never positional-only or keyword-only.
ReadParam(text) ==
    LET stars == IF Len(text) >= 2 /\ text[1] = "*" /\ text[2] = "*" THEN 2
                 ELSE IF text[1] = "*" THEN 1 ELSE 0
        body == SubSeq(text, stars + 1, Len(text))
        eq == IF \E i \in 1..Len(body) : body[i] = "="
              THEN CHOOSE i \in 1..Len(body) :
                       body[i] = "=" /\ \A j \in 1..(i - 1) : body[j] # "="
              ELSE 0
    IN  Parameter(IF eq = 0 THEN body ELSE SubSeq(body, 1, eq - 1),
                  IF stars = 2 THEN VAR_KEYWORD
                  ELSE IF stars = 1 THEN VAR_POSITIONAL ELSE POSITIONAL_OR_KEYWORD,
                  IF eq = 0 THEN Empty ELSE Eval(SubSeq(body, eq + 1, Len(body))))

\* The parameters of a def statement: a plain name that follows *name is
\* keyword-only.
ReadParams(definition) ==
    [i \in 1..Len(definition) |->
        LET p == ReadParam(definition[i])
        IN  IF /\ p.kind = POSITIONAL_OR_KEYWORD
               /\ \E j \in 1..(i - 1) : ReadParam(definition[j]).kind = VAR_POSITIONAL
            THEN [p EXCEPT !.kind = KEYWORD_ONLY]
            ELSE p]

\* What Python's grammar asks of a def statement: an identifier for a name,
\* no name twice, one *name at most, **name last, and among the parameters
\* before *name none without a default after one with a default.
GrammarOk(name, params) ==
    /\ is_identifier(name)
    /\ \A i, j \in 1..Len(params) : params[i].name = params[j].name => i = j
    /\ \A i, j \in 1..Len(params) :
          params[i].kind = VAR_POSITIONAL /\ params[j].kind = VAR_POSITIONAL => i = j
    /\ \A i \in 1..Len(params) : params[i].kind = VAR_KEYWORD => i = Len(params)
    /\ \A i, j \in 1..Len(params) :
          (/\ i < j
           /\ params[i].kind = POSITIONAL_OR_KEYWORD
           /\ params[j].kind = POSITIONAL_OR_KEYWORD
           /\ params[i].default # Empty) => params[j].default # Empty

\* exec(src, namespace): a SyntaxError when the text is not a def statement
\* of the grammar, the function the statement defines otherwise.
Exec(src, callback) ==
    IF ~GrammarOk(src.name, ReadParams(src.definition))
    THEN [exc |-> "SyntaxError", func |-> NoCallable]
    ELSE [exc |-> "",
          func |-> Callable(src.name, NoneV, ReadParams(src.definition),
                            src.gen, callback, EmptyDict)]

\* dict_to_func(data, callback): the exception it raises ("" for none), the
\* source text it handed to exec (NoSource when it built none) and the
\* callable it returns.
dict_to_func(data, callback) ==
    LET plist == data["params"]
        meta1 == Pop(data, "params")
        invalid == \E i \in 1..Len(plist) : ~is_identifier(plist[i]["name"])
        kept == SelectSeq(plist, LAMBDA p : p["kind"] # KEYWORD_ONLY)
        sig_defn == [i \in 1..Len(kept) |-> DefName(kept[i])]
        sig_call == [i \in 1..Len(kept) |-> CallName(kept[i])]
        params == [i \in 1..Len(kept) |->
                     [key |-> kept[i]["name"], val |-> Pop(kept[i], "name")]]
        meta2 == Put(meta1, "params", params)
        is_generator == Get(meta2, "isgen", FALSE)
        meta3 == Pop(meta2, "isgen")
        src == Source(data["name"], sig_defn, sig_call, is_generator)
        ran == Exec(src, callback)
        meta4 == Pop(meta3, "name")
        doc == Get(meta4, "doc", NoneV)
        meta5 == Pop(meta4, "doc")
    IN  IF invalid
        THEN [exc |-> "ValueError", src |-> NoSource, func |-> NoCallable]
        ELSE IF ran.exc # ""
        THEN [exc |-> ran.exc, src |-> src, func |-> NoCallable]
        ELSE [exc |-> "", src |-> src,
              func |-> [ran.func EXCEPT !.doc = doc, !.meta = meta5]]

\* A callable being described: where the work stands (pc), the callable,
\* the remove_self it is described with, its description d1 (or the one
\* received), where d1 came from, what dict_to_func made of d1 (out) and the
\* description d2 of the callable it returned.
Signature(pc, func, remove_self, d1) ==
    [pc |-> pc, func |-> func, remove_self |-> remove_self, d1 |-> d1,
     from |-> pc,
     out |-> [exc |-> "", src |-> NoSource, func |-> NoCallable],
     d2 |-> EmptyDict]

\* ------------------------------------------- URLs (utils/url.py), HTTPTransport

\* A URL is its text cut into pieces: a scheme, "://", a host, ":", a port
\* (its digits), "/" and the segments of a path.
DEFAULT_SCHEME == "tcp"

DEFAULT_HOST == "127.0.0.1"

DEFAULT_PORT == 12321

\* None, for a host and for a port.
NoHost == ""

NoPort == -1

\* int() of the digits of a port.
PortNumber(digits) ==
    IF digits = "0" THEN 0 ELSE IF digits = "80" THEN 80 ELSE 8080

\* The position of the first piece of text that is sep, Len(text) + 1 when
\* there is none.
Find(text, sep) ==
    IF \E i \in 1..Len(text) : text[i] = sep
    THEN CHOOSE i \in 1..Len(text) : text[i] = sep /\ \A j \in 1..(i - 1) : text[j] # sep
    ELSE Len(text) + 1

\* str.lstrip('/'), str.rstrip('/') and str.strip('/').
LStrip(text) ==
    IF \A i \in 1..Len(text) : text[i] = "/" THEN <<>>
    ELSE SubSeq(text, CHOOSE i \in 1..Len(text) :
                          text[i] # "/" /\ \A j \in 1..(i - 1) : text[j] = "/",
                Len(text))

RStrip(text) ==
    IF \A i \in 1..Len(text) : text[i] = "/" THEN <<>>
    ELSE SubSeq(text, 1, CHOOSE i \in 1..Len(text) :
                             text[i] # "/" /\ \A j \in (i + 1)..Len(text) : text[j] = "/")

Strip(text) == RStrip(LStrip(text))

\* urllib.parse.urlparse(url): scheme, hostname, port and path.
urlparse(url) ==
    LET rest == SubSeq(url, Find(url, "://") + 1, Len(url))
        netloc == SubSeq(rest, 1, Find(rest, "/") - 1)
        colon == Find(netloc, ":")
    IN  [scheme |-> IF Find(url, "://") = 2 THEN url[1] ELSE "",
         hostname |-> IF colon > 1 THEN netloc[1] ELSE NoHost,
         port |-> IF colon < Len(netloc) THEN PortNumber(netloc[colon + 1]) ELSE NoPort,
         path |-> SubSeq(rest, Find(rest, "/"), Len(rest))]

\* format_addr(addr).
format_addr(host, port) == <<host, ":", port>>

\* Url.__init__(url) for a str: the exception it raises ("" for none) and
\* the fields of the Url.  `parsed.port or DEFAULT_PORT`: None and 0 are
\* false.
Url(url) ==
    LET parsed == urlparse(IF \E i \in 1..Len(url) : url[i] = "://"
                           THEN url
                           ELSE <<DEFAULT_SCHEME, "://">> \o url)
        path == RStrip(<<IF parsed.hostname # NoHost THEN parsed.hostname ELSE "/">>
                           \o LStrip(parsed.path))
        host == IF parsed.hostname # NoHost
                THEN (IF parsed.hostname = "*" THEN "0.0.0.0" ELSE parsed.hostname)
                ELSE DEFAULT_HOST
        port == IF parsed.port # NoPort /\ parsed.port # 0 THEN parsed.port ELSE DEFAULT_PORT
    IN  IF parsed.scheme = "unix"
        THEN [exc |-> "", scheme |-> parsed.scheme, host |-> NoHost, port |-> NoPort,
              path |-> path]
        ELSE IF Strip(parsed.path) # <<>>
        THEN [exc |-> "ValueError", scheme |-> parsed.scheme, host |-> NoHost,
              port |-> NoPort, path |-> <<>>]
        ELSE [exc |-> "", scheme |-> parsed.scheme, host |-> host, port |-> port,
              path |-> <<>>]

\* HTTPTransport.__init__(url): Transport.__init__ makes the Url; the
\* exception raised ("" for none), self._url and self._addr.
HTTPTransport(url) ==
    LET target == Url(url)
        host == IF target.host # NoHost THEN target.host ELSE "127.0.0.1"
    IN  IF target.exc # ""
        THEN [exc |-> target.exc, url |-> target, addr |-> <<>>, connected |-> <<>>]
        ELSE IF target.port = NoPort
        THEN [exc |-> "ValueError", url |-> target, addr |-> <<>>, connected |-> <<>>]
        ELSE [exc |-> "", url |-> target, addr |-> [host |-> host, port |-> target.port],
              connected |-> <<>>]

\* HTTPTransport.connect(client): the address the connection is made to.
connect(transport) ==
    [transport EXCEPT !.connected =
        Append(@, format_addr(transport.addr.host, transport.addr.port))]

\* A caller about to make HTTPTransport(url): where it stands (pc), the url
\* and the transport made.
Constructing(url) ==
    [pc |-> "new", text |-> url,
     transport |-> [exc |-> "", url |-> <<>>, addr |-> <<>>, connected |-> <<>>]]

\* ----------------------------------------------------- registries (registry.py)

\* The registries create_metaclass has made, in the order of _metaclasses.
RegistryNames == <<"codec", "transport">>

\* An init() that makes its import pass whether or not one was made.
AlreadyInitializedNever(initialized) == FALSE

\* init(): `if _initialized.is_set(): return`.
AlreadyInitialized(initialized) == initialized

\* The module's state and the threads that use it.  lock: the thread that
\* holds _init_lock (0: none); initialized: _initialized; passes: the number
\* of times meta.init ran for each registry; pc, todo: where each thread is
\* and the registries its loop has still to go through; inits, reads: the
\* calls of init() and of get()/names() each thread has made.
Registry(threads) ==
    [lock |-> 0, initialized |-> FALSE,
     passes |-> [i \in 1..Len(RegistryNames) |-> 0],
     pc |-> [t \in threads |-> "idle"],
     todo |-> [t \in threads |-> <<>>],
     inits |-> [t \in threads |-> 0],
     reads |-> [t \in threads |-> 0]]

\* ------------------------------------------------------------- retry policy

\* Client.retry_count as the caller may set it: 0 (what None stands for), one
\* retry, and -1 for retrying without limit.
RetryCounts == {0, 1, -1}

\* isinstance(exc, self.errors) for the Retry a ServiceProxy builds:
\* errors=[errors.TransportError].
Whitelisted(exc) == exc.transport

\* An except clause that retries whatever the exception is.
RetryExceptAny(listed, retries, count) ==
    IF retries >= count /\ count >= 0 THEN "raise" ELSE "retry"

\* An except clause that allows one retry too many.
RetryExceptLate(listed, retries, count) ==
    IF ~listed THEN "raise"
    ELSE IF retries > count /\ count >= 0 THEN "raise"
    ELSE "retry"

\* The except clause of Retry.call and Retry.call_gen: re-raise an exception
\* that is not whitelisted, or once `count` retries have been made; otherwise
\* sleep and go round the loop again.
RetryExcept(listed, retries, count) ==
    IF ~listed THEN "raise"
    ELSE IF retries >= count /\ count >= 0 THEN "raise"
    ELSE "retry"

\* ------------------- a Client and its connections (interface.py, wrap_call)

ConnIds == 1..MaxDials

StreamIds == 1..MaxStreams

\* A response stream nobody has asked for yet.  st: "none", "live" (the
\* caller holds the generator of wrap_call.call), "ended" or "raised"; con:
\* the connection wrap_call.call got from connect(); drawn: the elements
\* drawn so far.
NoStream == [st |-> "none", con |-> 0, drawn |-> 0]

\* Client.__init__: _con is None (0).  socks[c]: the socket of connection c
\* ("none": not dialed, "open", "closed"); lost: the connections the peer
\* has dropped.
NewClient ==
    [_con |-> 0, socks |-> [c \in ConnIds |-> "none"], lost |-> {},
     streams |-> [k \in StreamIds |-> NoStream]]

\* The connections not dialed yet.
Undialed(cl) == {c \in ConnIds : cl.socks[c] = "none"}

\* Client.connect: the connection the client holds, or a new one.
ClientConnect(cl) ==
    IF cl._con # 0
    THEN cl
    ELSE LET c == CHOOSE d \in Undialed(cl) : \A e \in Undialed(cl) : d <= e
         IN  [cl EXCEPT !._con = c, !.socks[c] = "open"]

\* Client.close: closes the connection the client holds and forgets it.
ClientClose(cl) ==
    IF cl._con # 0
    THEN [cl EXCEPT !.socks[cl._con] = "closed", !._con = 0]
    ELSE cl

\* A send or recv on connection c succeeds: its socket is open and the peer
\* has not dropped it (tcp.recv turns an OSError into a TransportError).
Usable(cl, c) == cl.socks[c] = "open" /\ c \notin cl.lost

\* wrap_call.call's except clause, for stream k bound to connection c.
ClientExcept(cl, k, c, exc) ==
    [(IF exc.transport THEN ClientClose(cl) ELSE cl) EXCEPT
        !.streams[k] = [@ EXCEPT !.st = "raised", !.con = c]]

\* ------------------------------- a stream in both directions (protocol.py)

\* A call of dualstream with a stream of n elements.  out: the messages
\* send_cmd writes, sent: how many it has written; cpc: "send", "recv"
\* (send_cmd reads the first message of the response), "iter" (the caller
\* draws from the iterator send_cmd returned), "stopped" (the iterator
\* ended) or "raised"; cst: the client's recv_stream generator ("loop",
\* "yielded"); got: the elements the caller has drawn.  spc: "loop" (handle
\* reads a message), "start", "data", "end", "err" (a send_msg of
\* StreamStart, Data, StreamEnd, Error) or "pull" (send_stream draws from
\* the command's generator); sst: the server's recv_stream generator
\* ("init", "loop", "yielded"); val: the element the command has yielded.
DualCall(n, cap) ==
    [n |-> n, cap |-> cap, c2s |-> <<>>, s2c |-> <<>>,
     out |-> SendCmdMessages("test", "dualstream", <<Gen(UploadItems(n))>>, <<>>),
     sent |-> 0, cpc |-> "send", cst |-> "loop", got |-> <<>>,
     spc |-> "loop", sst |-> "init", val |-> Val(0), invoked |-> 0]

\* A message as recv_msg returns it.
Received(msg) == [st |-> "msg", msg |-> msg]

\* --------------------------------------------------------------- the state

VARIABLES
    c2s,                \* frames written by the client, not yet read by the server
    s2c,                \* frames written by the server, not yet read by the client
    srvCodec,           \* Server.codec (its name)
    remote_tracebacks,  \* Server.remote_tracebacks
    spc,                \* the handler thread: "loop", or "done" once handle() returned
    replied,            \* the handler is inside res_handshake's second recv()
    cliCodec,           \* Client.codec (its name, <<>> for None)
    con,                \* Client._con: "open", or "closed" for None
    retry_count,        \* Client.retry_count
    peer,               \* what the client's transport connects to
    rt,                 \* a Retry object run on its own, and the call it wraps
    si,                 \* a StreamInitiator run on its own, and its consumer
    wire,               \* a socket pair on its own: send() at one end, recv() at the other
    server,             \* a Server on its own: its registry of services
    listener,           \* a TcpTransport's accept loop on its own, and its handler threads
    svcProxy,           \* a ServiceProxy on its own, and the attributes read from it
    fn,                 \* a callable described, made from its description and described again
    http,               \* an HTTPTransport on its own, made from a URL
    reg,                \* the registries on their own, and the threads that use them
    serving,            \* a transport whose serve() a thread has just been started to run
    dual,               \* a call that uploads a stream and draws a stream, on bounded buffers
    cli,                \* a Client, the connections it has dialed and its callers' streams
    nLost,              \* the number of times a connection was lost
    nCalls,             \* the number of proxy calls the caller has made
    calls,              \* per call number: the proxy call as the caller sees it
    srv,                \* bookkeeping: how the handler dealt with the latest Command
    resp                \* bookkeeping: the messages it wrote for that Command's frames

vars == <<c2s, s2c, srvCodec, remote_tracebacks, spc, replied, cliCodec, con,
          retry_count, peer, nLost, nCalls, calls, srv, resp, rt, si, wire, server, listener, svcProxy, fn, http, reg, serving, dual, cli>>

\* The objects that are also modelled on their own, apart from a connection.
units == <<rt, si, wire, server, listener, svcProxy, fn, http, reg, serving, dual, cli>>

\* What the server and the client were constructed with.
config == <<srvCodec, remote_tracebacks, retry_count, peer>>

\* The client's transport URL names a snekrpc server, or some other program
\* that answers what it is sent.
Peers == {"snekrpc", "other"}

\* What a program that is no snekrpc server answers with.
OtherGreeting == <<"H", "T", "T", "P">>

CallIds == 1..MaxCalls

\* Argument lists the caller may pass to a proxy command: none, one stream
\* (positional or keyword) beside a plain value, or two streams.
NoArgs == [args |-> <<>>, kwargs |-> <<>>]

PosStream(n) == [args |-> <<Gen(UploadItems(n)), Val(0)>>, kwargs |-> <<>>]

KwStream(n) == [args |-> <<Val(0)>>, kwargs |-> <<KW("stream", Gen(UploadItems(n)))>>]

TwoStreams ==
    [args |-> <<Gen(UploadItems(1))>>, kwargs |-> <<KW("stream", Gen(UploadItems(1)))>>]

\* Two arguments that are each the dict {'__generator__': None}.
TwoSentinels == [args |-> <<Sentinel, Sentinel>>, kwargs |-> <<>>]

ArgShapes ==
    {NoArgs, TwoStreams, TwoSentinels, KwStream(MaxLen)}
    \cup {PosStream(n) : n \in 0..MaxLen}

\* The proxy calls the caller may make: any argument list on a decorated
\* command through a plain or a streaming proxy command, and calls that name
\* something else (Service.__init__, the _name_ attribute, a missing
\* attribute, a missing service).
Requests ==
    [proxy : {"value", "stream"}, tgt : {<<"test", "cmd">>}, shape : ArgShapes]
    \cup [proxy : {"value"},
          tgt : {<<"test", "__init__">>, <<"test", "_name_">>,
                 <<"test", "missing">>, <<"nosvc", "cmd">>},
          shape : {NoArgs}]
    \cup [proxy : {"value"}, tgt : {<<"test", "__init__">>, <<"test", "missing">>},
          shape : {PosStream(1)}]

\* A proxy call.  st: "none" (not made), "wait_hs" / "wait_resp" / "wait_elem"
\* (blocked reading the handshake reply, the response, a stream element),
\* "retry" (asleep in the retry policy's loop), "live" (its response iterator
\* is suspended after yielding), "done", and "past" (done, and no longer
\* tracked).  retries: the counter of the retry policy around it.  got: the values it returned or
\* yielded; end: "open", "return", "stop" or "raise", with exc; wrote: its
\* Command was written; read: the Command numbers of the frames it read; hs:
\* it began with the handshake.
CallRec(proxy, tgt, shape, st, end, exc, wrote) ==
    [proxy |-> proxy, service_name |-> tgt[1], command_name |-> tgt[2],
     args |-> shape.args, kwargs |-> shape.kwargs, st |-> st, got |-> <<>>,
     end |-> end, exc |-> exc, wrote |-> wrote, read |-> <<>>, hs |-> st = "wait_hs",
     retries |-> 0]

NoCall == CallRec("", <<"", "">>, NoArgs, "none", "open", NoExc, FALSE)

PastCall == CallRec("", <<"", "">>, NoArgs, "past", "open", NoExc, FALSE)

\* Earlier calls are tracked only while their response iterator can still be
\* advanced.
Compact(c) == IF c.st \in {"none", "live"} THEN c ELSE PastCall

\* The handler's dealing with a Command: its number, the attribute whose body
\* ran ("" if none), the arguments it was called with, what its stream
\* argument yielded and how that iteration ended, the exception that left
\* recv_cmd (failed: it is no TransportError), the number of frames written
\* for this Command that the handler loop has since read where it expected a
\* Command, and whether the Command handled before it failed.
NoCommand ==
    [cmd |-> 0, invoked |-> "", beh |-> InitBehaviour, args |-> <<>>, kwargs |-> <<>>,
     got |-> <<>>, gotEnd |-> "unused", exc |-> NoExc, failed |-> FALSE,
     strays |-> 0, afterError |-> FALSE]

\* A Retry(count, interval, errors=[TransportError]) and a call through it that
\* has not begun.  pc: "idle", "running" (inside the wrapped callable or the
\* iteration of what it returned), "sleeping", "returned", "raised"; mode: the
\* method called; invoked: the number of invocations of the callable; run: the
\* number of values the current invocation has yielded; out: the result
\* returned, or the values yielded to the consumer; fails: the number of
\* exceptions the callable has raised, and exc the last of them; slept: the
\* seconds spent in time.sleep.
RetryObject(count, interval) ==
    [pc |-> "idle", mode |-> "", count |-> count, interval |-> interval,
     retries |-> 0, slept |-> 0, invoked |-> 0, run |-> 0, out |-> <<>>,
     fails |-> 0, exc |-> NoExc]

InitConnection ==
    /\ c2s = <<>>
    /\ s2c = <<>>
    /\ srvCodec \in CodecNames
    /\ remote_tracebacks \in BOOLEAN
    /\ spc = "loop"
    /\ replied = FALSE
    /\ cliCodec \in {<<>>, srvCodec}
    /\ con = "closed"
    /\ retry_count \in RetryCounts
    /\ peer \in Peers
    /\ peer = "other" =>
          /\ srvCodec = <<"m", "s", "g", "p", "a", "c", "k">>
          /\ ~remote_tracebacks
          /\ cliCodec = <<>>
    /\ nLost = 0
    /\ nCalls = 0
    /\ calls = [k \in CallIds |-> NoCall]
    /\ srv = NoCommand
    /\ resp = <<>>

\* A server, and a client that has made no call.
Init ==
    /\ InitConnection
    /\ rt = RetryObject(0, 1)
    /\ si = Unwrapped(Iter(<<>>, FALSE))
    /\ wire = SocketPair(0)
    /\ server = NewServer
    /\ listener = Listening(FALSE)
    /\ svcProxy = ServiceProxy("none", {})
    /\ fn = Signature("callable", NoCallable, FALSE, EmptyDict)
    /\ http = Constructing(<<>>)
    /\ reg = Registry({})
    /\ serving = Serving("tcp", "absent")
    /\ dual = DualCall(0, 1)
    /\ cli = NewClient

\* ------------------------------------------------------------ server actions

\* The bodies the command named by a received message may have.
BehChoices(m) ==
    IF /\ m.st = "msg"
       /\ m.msg.tag = "CommandMessage"
       /\ m.msg.service_name \in Services
       /\ m.msg.command_name \in AttrNames
       /\ Attrs[m.msg.command_name].anyargs
    THEN Behaviours(HasStream(m.msg.args, m.msg.kwargs))
    ELSE {InitBehaviour}

\* The handler reads the handshake request and answers it (res_handshake up to
\* its second recv()).
SrvHandshake ==
    /\ peer = "snekrpc"
    /\ spc = "loop"
    /\ LET r == ResHandshake(c2s, replied, srvCodec) IN
       /\ r.st = "reply"
       /\ c2s' = r.rest
       /\ s2c' = Append(s2c, r.sent)
    /\ replied' = TRUE
    /\ UNCHANGED <<config, units, spc, cliCodec, con, nLost, nCalls, calls,
                   srv, resp>>

\* The handler loop has read m (the result of recv_msg) and dealt with it as h.
Handled(m, beh, h) ==
    /\ ~h.blocked
    /\ c2s' = h.rest
    /\ s2c' = s2c \o Frames(srvCodec, h.sent, m.cmd)
                  \o (IF h.returned THEN <<EofFrame>> ELSE <<>>)
    /\ spc' = IF h.returned THEN "done" ELSE "loop"
    /\ IF m.st = "msg" /\ m.msg.tag = "CommandMessage"
       THEN /\ srv' = [cmd |-> m.cmd, invoked |-> h.invoked,
                       beh |-> IF h.invoked = "cmd" THEN beh ELSE InitBehaviour,
                       args |-> h.args, kwargs |-> h.kwargs,
                       got |-> h.got, gotEnd |-> h.gotEnd,
                       exc |-> h.exc,
                       failed |-> h.exc # NoExc /\ ~h.exc.transport,
                       strays |-> 0, afterError |-> srv.failed]
            /\ resp' = h.sent
       ELSE IF m.st # "none" /\ m.cmd = srv.cmd
       THEN /\ srv' = [srv EXCEPT !.strays = @ + 1]
            /\ resp' = resp \o h.sent
       ELSE UNCHANGED <<srv, resp>>

\* The handler loop has received m; the command it names runs as one of the
\* bodies it may have.
Dispatch(m, q) ==
    \E beh \in BehChoices(m) :
       Handled(m, beh, handle(m, q, srvCodec, beh, remote_tracebacks))

\* One pass of the handler loop: read a message, dispatch it, answer it.
SrvHandle ==
    /\ peer = "snekrpc"
    /\ spc = "loop"
    /\ ResHandshake(c2s, replied, srvCodec).st = "data"
    /\ Dispatch(RecvMsgData(ResHandshake(c2s, replied, srvCodec).data, srvCodec),
                ResHandshake(c2s, replied, srvCodec).rest)
    /\ replied' = FALSE
    /\ UNCHANGED <<config, units, cliCodec, con, nLost, nCalls, calls>>

\* The program at the other end, which is no snekrpc server, reads a frame and
\* answers it.
OtherReply ==
    /\ peer = "other"
    /\ spc = "loop"
    /\ c2s # <<>>
    /\ Head(c2s).kind # "eof"
    /\ c2s' = Tail(c2s)
    /\ s2c' = Append(s2c, RawFrame(OtherGreeting, 0))
    /\ UNCHANGED <<config, units, spc, replied, cliCodec, con, nLost, nCalls, calls,
                   srv, resp>>

\* ------------------------------------------------------------ client actions

\* The caller is between operations: no proxy call is blocked in a read.
Idle == \A k \in CallIds : calls[k].st \in {"none", "live", "done", "past"}

\* wrap_call.call's except clause with the close left out.
CallExceptKeep(exc, c) == c

\* wrap_call.call's except clause: Client.close() on a TransportError.  The
\* client's connection afterwards.
CallExcept(exc, c) == IF exc.transport THEN "closed" ELSE c

\* An attempt of call c has raised exc, having read the frames `read`: the
\* retry policy around it re-raises exc to the caller, or goes to sleep.
Raised(c, exc, read) ==
    IF RetryExcept(Whitelisted(exc), c.retries, retry_count) = "retry"
    THEN [c EXCEPT !.st = "retry", !.exc = exc, !.read = @ \o read]
    ELSE [c EXCEPT !.st = "done", !.end = "raise", !.exc = exc, !.read = @ \o read]

\* An attempt of call k raises exc.
Raise(k, exc, read) ==
    /\ calls' = [calls EXCEPT ![k] = Raised(@, exc, read)]
    /\ con' = CallExcept(exc, con)

\* Client.close() as the peer sees it: the connection's write side ends.
CloseFrames(exc) == IF exc.transport THEN <<EofFrame>> ELSE <<>>

\* The frames of call k's Command (and uploaded stream).
CallFrames(k, c, codec) ==
    Frames(codec, SendCmdMessages(c.service_name, c.command_name, c.args, c.kwargs), k)

\* A send_cmd that lets any number of stream arguments through.
TooManyStreamsNever(args, kwargs) == FALSE

\* send_cmd's scan of the arguments: a second generator is refused.
TooManyStreams(args, kwargs) == Len(Streams(args, kwargs)) > 1

\* A req_handshake that asks for the codec on every send.
NeedHandshakeAlways(codec) == TRUE

\* req_handshake's first test: the handshake is skipped when the interface
\* has a codec.
NeedHandshake(codec) == codec = <<>>

\* An attempt of call c from wrap_call.call's connect() to send_cmd's first
\* blocking read, or to the exception that ends it before.
Started(c, codec) ==
    IF TooManyStreams(c.args, c.kwargs)
    THEN Raised(c, Exc(N_ParameterError, <<>>, FALSE), <<>>)
    ELSE IF NeedHandshake(codec)
    THEN [c EXCEPT !.st = "wait_hs", !.hs = TRUE]
    ELSE [c EXCEPT !.st = "wait_resp", !.wrote = TRUE]

\* The frames that attempt writes.
StartFrames(k, c, codec) ==
    CASE c.st = "wait_hs" -> <<RawFrame(HANDSHAKE, 0)>>
      [] c.st = "wait_resp" -> CallFrames(k, c, codec)
      [] OTHER -> <<>>

\* Client.connect, then the writing of `frames`: to the connection the client
\* holds, or to one it dials, which has a handler thread of its own.
Connect(frames) ==
    /\ con' = "open"
    /\ IF con = "open"
       THEN /\ c2s' = c2s \o frames
            /\ UNCHANGED <<s2c, spc, replied, srv, resp>>
       ELSE /\ c2s' = frames
            /\ s2c' = <<>>
            /\ spc' = "loop"
            /\ replied' = FALSE
            /\ srv' = NoCommand
            /\ resp' = <<>>

\* The caller invokes a proxy command (for a streaming proxy: calls next() on
\* the generator it returned for the first time).  The retry policy invokes
\* wrap_call.call, which connects and runs Protocol.send_cmd up to its first
\* blocking read.
Call ==
    /\ Idle
    /\ nCalls < MaxCalls
    /\ nCalls' = nCalls + 1
    /\ \E rq \in Requests :
         LET k == nCalls + 1
             c == Started(CallRec(rq.proxy, rq.tgt, rq.shape, "none", "open",
                                  NoExc, FALSE), cliCodec)
         IN  /\ calls' = [j \in CallIds |-> IF j = k THEN c ELSE Compact(calls[j])]
             /\ Connect(StartFrames(k, c, cliCodec))
    /\ UNCHANGED <<config, units, cliCodec, nLost>>

\* A generator that has been iterated to its end yields nothing more.
Exhaust(arg) == IF arg.type = "gen" THEN Gen(<<>>) ELSE arg

ExhaustKW(kw) == KW(kw.name, Exhaust(kw.arg))

\* The call as the next attempt finds it: a stream argument the last attempt
\* has sent is exhausted.
Rewound(c) ==
    IF c.wrote
    THEN [c EXCEPT !.args = MapSeq(Exhaust, @), !.kwargs = MapSeq(ExhaustKW, @),
                   !.wrote = FALSE, !.exc = NoExc]
    ELSE [c EXCEPT !.exc = NoExc]

\* The retry policy's sleep is over: it counts the retry and invokes
\* wrap_call.call again.
Retry ==
    \E k \in CallIds :
       /\ calls[k].st = "retry"
       /\ LET c == Started([Rewound(calls[k]) EXCEPT !.retries = @ + 1], cliCodec) IN
          /\ calls' = [calls EXCEPT ![k] = c]
          /\ Connect(StartFrames(k, c, cliCodec))
       /\ UNCHANGED <<config, units, cliCodec, nLost, nCalls>>

\* The first byte(s) of a frame's payload; an encoded message never starts
\* with a NUL byte.
Bytes(frame) == IF frame.kind = "raw" THEN frame.bytes ELSE <<"enc">>

\* Protocol.req_handshake from its recv() on, then the rest of send_msg and
\* send_cmd up to the blocking read of the response.
HsReply ==
    \E k \in CallIds :
       /\ calls[k].st = "wait_hs"
       /\ s2c # <<>>
       /\ LET data == Head(s2c) IN
          IF data.kind = "eof"
          THEN /\ Raise(k, Exc(N_TransportError, <<>>, TRUE), <<>>)
               /\ c2s' = c2s \o CloseFrames(Exc(N_TransportError, <<>>, TRUE))
               /\ UNCHANGED <<s2c, cliCodec>>
          ELSE /\ s2c' = Tail(s2c)
               /\ IF SubSeq(Bytes(data), 1, 1) # HANDSHAKE
                  THEN /\ Raise(k, HandshakeError, <<>>)
                       /\ UNCHANGED <<c2s, cliCodec>>
                  ELSE /\ cliCodec' = Tail(Bytes(data))
                       /\ c2s' = c2s \o CallFrames(k, calls[k], cliCodec')
                       /\ calls' = [calls EXCEPT ![k].st = "wait_resp",
                                                 ![k].wrote = TRUE]
                       /\ con' = con
       /\ UNCHANGED <<config, units, spc, replied, nLost, nCalls, srv, resp>>

\* A send_cmd that takes the end of the connection for a malformed message.
SendCmdResultNoClose(r) ==
    CASE r.st = "exc" -> [out |-> "raise", exc |-> r.exc]
      [] r.st = "msg" /\ r.msg.tag = "DataMessage" ->
            [out |-> "data", val |-> MatchFirst(r.msg)]
      [] r.st = "msg" /\ r.msg.tag = "ErrorMessage" ->
            [out |-> "raise", exc |-> RemoteErrorUnpack(MatchFirst(r.msg))]
      [] r.st = "msg" /\ r.msg.tag = "StreamStartMessage" -> [out |-> "stream"]
      [] OTHER -> [out |-> "raise", exc |-> MessageError]

\* The end of Protocol.send_cmd: what it does with the result r of recv_msg.
SendCmdResult(r) ==
    CASE r.st = "none" ->
            [out |-> "raise", exc |-> Exc(N_ReceiveInterrupted, <<>>, TRUE)]
      [] r.st = "exc" -> [out |-> "raise", exc |-> r.exc]
      [] r.st = "msg" /\ r.msg.tag = "DataMessage" ->
            [out |-> "data", val |-> MatchFirst(r.msg)]
      [] r.st = "msg" /\ r.msg.tag = "ErrorMessage" ->
            [out |-> "raise", exc |-> RemoteErrorUnpack(MatchFirst(r.msg))]
      [] r.st = "msg" /\ r.msg.tag = "StreamStartMessage" -> [out |-> "stream"]
      [] OTHER -> [out |-> "raise", exc |-> MessageError]

\* Wrappers that hand the caller whatever send_cmd returned.
WrapCallResultLax(proxy, res) ==
    CASE res.out = "raise" -> res
      [] res.out = "data" -> [out |-> "return", val |-> res.val]
      [] OTHER -> [out |-> "prime"]

\* wrap_call's call_value / call_stream on the result of send_cmd:
\*   "return" a value, "raise", or "prime" (StreamInitiator fetches the first
\*   element of the response stream).
WrapCallResult(proxy, res) ==
    CASE res.out = "raise" -> res
      [] proxy = "value" /\ res.out = "data" -> [out |-> "return", val |-> res.val]
      [] proxy = "stream" /\ res.out = "stream" -> [out |-> "prime"]
      [] OTHER -> [out |-> "raise", exc |-> Exc(N_ParameterError, <<>>, FALSE)]

\* The blocked send_cmd of call k reads the response to its Command.
RecvResp ==
    \E k \in CallIds :
       /\ calls[k].st = "wait_resp"
       /\ LET r == RecvMsg(s2c, cliCodec) IN
          /\ r.st # "block"
          /\ s2c' = r.rest
          /\ LET w == WrapCallResult(calls[k].proxy, SendCmdResult(r)) IN
             CASE w.out = "raise" ->
                     /\ Raise(k, w.exc, <<r.cmd>>)
                     /\ c2s' = c2s \o r.sent \o CloseFrames(w.exc)
               [] w.out = "return" ->
                     /\ calls' = [calls EXCEPT ![k].st = "done", ![k].end = "return",
                                               ![k].got = <<w.val>>,
                                               ![k].read = @ \o <<r.cmd>>]
                     /\ c2s' = c2s \o r.sent
                     /\ con' = con
               [] w.out = "prime" ->
                     /\ calls' = [calls EXCEPT ![k].st = "wait_elem",
                                               ![k].read = @ \o <<r.cmd>>]
                     /\ c2s' = c2s \o r.sent
                     /\ con' = con
       /\ UNCHANGED <<config, units, spc, replied, cliCodec, nLost, nCalls,
                      srv, resp>>

\* The response iterator of call k, blocked in recv_stream's recv_msg, reads
\* the next message of the response stream.
RecvElem ==
    \E k \in CallIds :
       /\ calls[k].st = "wait_elem"
       /\ LET r == RecvMsg(s2c, cliCodec) IN
          /\ r.st # "block"
          /\ s2c' = r.rest
          /\ LET s == RecvStreamOnMsg(r) IN
             CASE s.out = "raise" ->
                     /\ Raise(k, s.exc, <<r.cmd>>)
                     /\ c2s' = c2s \o r.sent \o CloseFrames(s.exc)
               [] s.out = "yield" ->
                     /\ calls' = [calls EXCEPT ![k].st = "live",
                                               ![k].got = Append(@, s.val),
                                               ![k].read = @ \o <<r.cmd>>]
                     /\ c2s' = c2s \o r.sent
                     /\ con' = con
               [] s.out = "return" ->
                     /\ calls' = [calls EXCEPT ![k].st = "done", ![k].end = "stop",
                                               ![k].read = @ \o <<r.cmd>>]
                     /\ c2s' = c2s \o r.sent
                     /\ con' = con
       /\ UNCHANGED <<config, units, spc, replied, cliCodec, nLost, nCalls,
                      srv, resp>>

\* The caller calls next() on a response iterator that has yielded a value.
NextElem ==
    /\ Idle
    /\ \E k \in CallIds :
         /\ calls[k].st = "live"
         /\ IF RecvStreamResume = "raise"
            THEN Raise(k, MessageError, <<>>)
            ELSE /\ calls' = [calls EXCEPT ![k].st = "wait_elem"]
                 /\ con' = con
    /\ UNCHANGED <<c2s, s2c, config, units, spc, replied, cliCodec, nLost,
                   nCalls, srv, resp>>

\* The caller calls Client.close() and makes no further call.
Close ==
    /\ con = "open"
    /\ Idle
    /\ con' = "closed"
    /\ c2s' = Append(c2s, EofFrame)
    /\ UNCHANGED <<s2c, config, units, spc, replied, cliCodec, nLost,
                   nCalls, calls, srv, resp>>

\* The connection is lost at the server's end (the server process stops, the
\* network resets the connection): its handler is gone, and the client's
\* recv() returns b'' once it has read what the handler had written.
Lost ==
    /\ con = "open"
    /\ spc = "loop"
    /\ nLost < MaxLost
    /\ nLost' = nLost + 1
    /\ spc' = "done"
    /\ s2c' = Append(s2c, EofFrame)
    /\ UNCHANGED <<c2s, config, units, replied, cliCodec, con, nCalls, calls,
                   srv, resp>>

Next ==
    \/ SrvHandshake
    \/ SrvHandle
    \/ OtherReply
    \/ Lost
    \/ Call
    \/ Retry
    \/ HsReply
    \/ RecvResp
    \/ RecvElem
    \/ NextElem
    \/ Close

Spec == Init /\ [][Next]_vars

\* ------------------------------------------------ the retry policy on its own

\* utils.retry.Retry wrapped around an arbitrary callable, as
\* Retry(count, interval, errors=[TransportError]).call(func) and
\* .call_gen(func).  Each invocation of func returns a value (call), or yields
\* Produced(1), Produced(2), ... (call_gen), and may raise at any point.

\* The client, the connection and the handler.
connection ==
    <<c2s, s2c, srvCodec, remote_tracebacks, spc, replied, cliCodec, con,
      retry_count, peer, nLost, nCalls, calls, srv, resp>>

\* Retry counts: those a client may have, and one that MaxFails failures
\* just exhaust.
RtCounts == RetryCounts \cup {MaxFails - 1}

\* Values of Retry.interval, in seconds.
Intervals == {1, 2}

\* The exceptions the i-th invocation of the callable may raise: one that is
\* whitelisted and one that is not.
RtExcs(i) == {Exc(N_TransportError, <<i>>, TRUE), Exc(N_KeyError, <<i>>, FALSE)}

\* Everything but rt.
besidesRt == <<connection, si, wire, server, listener, svcProxy, fn, http, reg, serving, dual, cli>>

InitRetry ==
    /\ InitConnection
    /\ peer = "other"
    /\ retry_count = 0
    /\ si = Unwrapped(Iter(<<>>, FALSE))
    /\ wire = SocketPair(0)
    /\ rt \in {RetryObject(count, interval) : count \in RtCounts, interval \in Intervals}
    /\ server = NewServer
    /\ listener = Listening(FALSE)
    /\ svcProxy = ServiceProxy("none", {})
    /\ fn = Signature("callable", NoCallable, FALSE, EmptyDict)
    /\ http = Constructing(<<>>)
    /\ reg = Registry({})
    /\ serving = Serving("tcp", "absent")
    /\ dual = DualCall(0, 1)
    /\ cli = NewClient

\* The caller calls Retry.call or Retry.call_gen (and, for call_gen, next() on
\* what it returned): retries = 0 and the callable is invoked.
RtCall ==
    /\ rt.pc = "idle"
    /\ \E mode \in {"call", "call_gen"} :
          rt' = [rt EXCEPT !.pc = "running", !.mode = mode, !.invoked = 1]
    /\ UNCHANGED besidesRt

\* Retry.call: the callable returns, and call returns its result.
RtReturn ==
    /\ rt.pc = "running"
    /\ rt.mode = "call"
    /\ rt' = [rt EXCEPT !.pc = "returned", !.out = <<Returned>>]
    /\ UNCHANGED besidesRt

\* Retry.call_gen: the iterable yields its next value, which call_gen yields
\* to the consumer.
RtYield ==
    /\ rt.pc = "running"
    /\ rt.mode = "call_gen"
    /\ rt.run < MaxLen
    /\ rt' = [rt EXCEPT !.run = @ + 1, !.out = Append(@, Produced(rt.run + 1))]
    /\ UNCHANGED besidesRt

\* Retry.call_gen: the iterable is exhausted and call_gen returns.
RtFinish ==
    /\ rt.pc = "running"
    /\ rt.mode = "call_gen"
    /\ rt' = [rt EXCEPT !.pc = "returned"]
    /\ UNCHANGED besidesRt

\* The callable (or the iteration of what it returned) raises: the except
\* clause re-raises the exception or goes to sleep.
RtFail ==
    /\ rt.pc = "running"
    /\ rt.fails < MaxFails
    /\ \E exc \in RtExcs(rt.invoked) :
          rt' = [rt EXCEPT
                    !.pc = IF RetryExcept(Whitelisted(exc), rt.retries, rt.count) = "retry"
                           THEN "sleeping" ELSE "raised",
                    !.exc = exc,
                    !.fails = @ + 1]
    /\ UNCHANGED besidesRt

\* time.sleep(self.interval) returns; retries += 1, and the loop invokes the
\* callable again.
RtWake ==
    /\ rt.pc = "sleeping"
    /\ rt' = [rt EXCEPT !.pc = "running", !.slept = @ + rt.interval,
                        !.retries = @ + 1, !.invoked = @ + 1, !.run = 0]
    /\ UNCHANGED besidesRt

NextRetry ==
    \/ RtCall
    \/ RtReturn
    \/ RtYield
    \/ RtFinish
    \/ RtFail
    \/ RtWake

SpecRetry == InitRetry /\ [][NextRetry]_vars

\* ------------------------------------------- a StreamInitiator on its own

\* service.StreamInitiator wrapped around an arbitrary iterator and consumed
\* with next().

\* Everything but si.
besidesSi == <<connection, rt, wire, server, listener, svcProxy, fn, http, reg, serving, dual, cli>>

\* The values an iterator may hold.
ItemValues == {1, 2}

\* The sequences of at most n values.
RECURSIVE ItemSeqs(_)
ItemSeqs(n) ==
    IF n = 0 THEN {<<>>}
    ELSE ItemSeqs(n - 1)
         \cup {Append(q, v) : q \in {r \in ItemSeqs(n - 1) : Len(r) = n - 1},
                               v \in ItemValues}

InitStream ==
    /\ InitConnection
    /\ peer = "other"
    /\ retry_count = 0
    /\ rt = RetryObject(0, 1)
    /\ wire = SocketPair(0)
    /\ si \in {Unwrapped(Iter(items, fail)) :
                 items \in ItemSeqs(MaxItems), fail \in BOOLEAN}
    /\ server = NewServer
    /\ listener = Listening(FALSE)
    /\ svcProxy = ServiceProxy("none", {})
    /\ fn = Signature("callable", NoCallable, FALSE, EmptyDict)
    /\ http = Constructing(<<>>)
    /\ reg = Registry({})
    /\ serving = Serving("tcp", "absent")
    /\ dual = DualCall(0, 1)
    /\ cli = NewClient

\* StreamInitiator(gen) is constructed.
SiInit ==
    /\ si.pc = "new"
    /\ si' = StreamInitiatorInit(si.gen) @@ si
    /\ UNCHANGED besidesSi

\* The consumer calls next() on iter() of the StreamInitiator.
SiNext ==
    /\ si.pc = "ready"
    /\ si' = StreamInitiatorNext(si)
    /\ UNCHANGED besidesSi

NextStream ==
    \/ SiInit
    \/ SiNext

SpecStream == InitStream /\ [][NextStream]_vars

\* ---------------------------------------------------- a socket pair on its own

\* transport.tcp: send() at one end of a connected socket pair, recv() at the
\* other.  Bytes arrive one at a time, so that the receiver finds anything
\* from one byte to all that was written when it reads.

\* Everything but wire.
besidesWire == <<connection, rt, si, server, listener, svcProxy, fn, http, reg, serving, dual, cli>>

\* Values of a payload byte (both are also bytes of a length prefix).
ByteValues == {0, 1}

\* The payloads of at most n bytes.
RECURSIVE Payloads(_)
Payloads(n) ==
    IF n = 0 THEN {<<>>}
    ELSE Payloads(n - 1)
         \cup {Append(q, b) : q \in {r \in Payloads(n - 1) : Len(r) = n - 1},
                               b \in ByteValues}

\* TcpConnection._chunk_size: None (0), or a number of bytes.
ChunkSizes == {0, 1, 3}

InitTcp ==
    /\ InitConnection
    /\ peer = "other"
    /\ retry_count = 0
    /\ rt = RetryObject(0, 1)
    /\ si = Unwrapped(Iter(<<>>, FALSE))
    /\ wire \in {SocketPair(chunk_size) : chunk_size \in ChunkSizes}
    /\ server = NewServer
    /\ listener = Listening(FALSE)
    /\ svcProxy = ServiceProxy("none", {})
    /\ fn = Signature("callable", NoCallable, FALSE, EmptyDict)
    /\ http = Constructing(<<>>)
    /\ reg = Registry({})
    /\ serving = Serving("tcp", "absent")
    /\ dual = DualCall(0, 1)
    /\ cli = NewClient

\* tcp.send(sock, data): the length prefix and the payload are written.
TcpSend ==
    /\ ~wire.closed
    /\ Len(wire.sent) < MaxFrames
    /\ \E data \in Payloads(MaxPayload) :
          wire' = [wire EXCEPT !.sent = Append(@, data),
                               !.pending = @ \o SendBytes(data)]
    /\ UNCHANGED besidesWire

\* The next byte written arrives at the receiver's socket.
TcpDeliver ==
    /\ wire.pending # <<>>
    /\ wire' = [wire EXCEPT !.pending = Tail(@), !.stream = Append(@, Head(wire.pending))]
    /\ UNCHANGED besidesWire

\* The sender's end is closed (tcp.close, or its process ends); what had not
\* left it never arrives.
TcpClose ==
    /\ ~wire.closed
    /\ wire' = [wire EXCEPT !.closed = TRUE, !.pending = <<>>]
    /\ UNCHANGED besidesWire

\* The receiver calls recv(): recviter starts recvsize(sock, 4, chunk_size).
TcpRecv ==
    /\ wire.pc = "idle"
    /\ Len(wire.got) < MaxFrames
    /\ wire' = [wire EXCEPT !.pc = "size", !.size = 4, !.pos = 0, !.buf = <<>>]
    /\ UNCHANGED besidesWire

\* The receiver after a sock.recv() that returned the bytes `chunk`.
AfterChunk(w, chunk) ==
    LET buf == w.buf \o chunk
        pos == w.pos + Len(chunk)
        read == [w EXCEPT !.stream = SubSeq(@, Len(chunk) + 1, Len(@)),
                          !.taken = @ + Len(chunk)]
    IN  CASE pos < w.size -> [read EXCEPT !.buf = buf, !.pos = pos]
          [] pos >= w.size /\ w.pc = "size" /\ Unpack(buf) > 0 ->
                [read EXCEPT !.pc = "data", !.size = Unpack(buf), !.pos = 0,
                             !.buf = <<>>]
          [] pos >= w.size /\ w.pc = "size" /\ Unpack(buf) = 0 ->
                [read EXCEPT !.pc = "idle", !.buf = <<>>,
                             !.got = Append(@, TcpRecvResult("done", <<>>))]
          [] OTHER ->
                [read EXCEPT !.pc = "idle", !.buf = <<>>,
                             !.got = Append(@, TcpRecvResult("done", buf))]

\* recvsize: sock.recv(n) returns the bytes that have arrived, n at most.
TcpSockRecv ==
    /\ wire.pc \in {"size", "data"}
    /\ wire.stream # <<>>
    /\ wire' = AfterChunk(wire,
                  SubSeq(wire.stream, 1,
                         Min(Len(wire.stream),
                             RecvSizeWant(wire.size, wire.pos, wire.chunk_size))))
    /\ UNCHANGED besidesWire

\* recvsize: sock.recv(n) returns b'' (the peer has closed and nothing is left
\* to read): ReceiveInterrupted.
TcpSockEof ==
    /\ wire.pc \in {"size", "data"}
    /\ wire.stream = <<>>
    /\ wire.closed
    /\ wire' = [wire EXCEPT
                   !.pc = "closed",
                   !.got = Append(@, TcpRecvResult("ReceiveInterrupted",
                                         IF wire.pc = "data" THEN wire.buf ELSE <<>>))]
    /\ UNCHANGED besidesWire

\* recvsize: sock.recv(n) raises OSError (a reset connection, a timeout).
TcpSockError ==
    /\ wire.pc \in {"size", "data"}
    /\ wire.errors = 0
    /\ wire' = [wire EXCEPT
                   !.pc = "failed",
                   !.errors = @ + 1,
                   !.got = Append(@, TcpRecvResult("OSError",
                                         IF wire.pc = "data" THEN wire.buf ELSE <<>>))]
    /\ UNCHANGED besidesWire

NextTcp ==
    \/ TcpSend
    \/ TcpDeliver
    \/ TcpClose
    \/ TcpRecv
    \/ TcpSockRecv
    \/ TcpSockEof
    \/ TcpSockError

SpecTcp == InitTcp /\ [][NextTcp]_vars

\* ---------------------------------------------------------- a Server on its own

\* interface.Server and the calls that change its registry of services.

\* Everything but server.
besidesServer == <<connection, rt, si, wire, listener, svcProxy, fn, http, reg, serving, dual, cli>>

\* The registered service classes a caller may add.
ServiceClasses == {"meta", "echo"}

\* The aliases it may give: none, the metadata service's, one of its own.
Aliases == {"", "_meta", "x"}

InitServer ==
    /\ InitConnection
    /\ peer = "other"
    /\ retry_count = 0
    /\ rt = RetryObject(0, 1)
    /\ si = Unwrapped(Iter(<<>>, FALSE))
    /\ wire = SocketPair(0)
    /\ server = NewServer
    /\ listener = Listening(FALSE)
    /\ svcProxy = ServiceProxy("none", {})
    /\ fn = Signature("callable", NoCallable, FALSE, EmptyDict)
    /\ http = Constructing(<<>>)
    /\ reg = Registry({})
    /\ serving = Serving("tcp", "absent")
    /\ dual = DualCall(0, 1)
    /\ cli = NewClient

\* server.add_service(cls, alias=alias).
AddService ==
    /\ server.made < MaxServices
    /\ \E cls \in ServiceClasses, alias \in Aliases :
          server' = add_service(server, cls, alias)
    /\ UNCHANGED besidesServer

\* server.remove_service(name).
RemoveService ==
    /\ \E name \in RegNames : server' = remove_service(server, name)
    /\ UNCHANGED besidesServer

NextServer ==
    \/ AddService
    \/ RemoveService

SpecServer == InitServer /\ [][NextServer]_vars

\* -------------------------------------------------- an accept loop on its own

\* transport.tcp.TcpTransport.serve (UnixTransport.serve runs the same loop),
\* the clients that connect to it, the handler threads it starts, and a
\* caller of Server.stop().

\* Everything but listener.
besidesListener == <<connection, rt, si, wire, server, svcProxy, fn, http, reg, serving, dual, cli>>

InitServe ==
    /\ InitConnection
    /\ peer = "other"
    /\ retry_count = 0
    /\ rt = RetryObject(0, 1)
    /\ si = Unwrapped(Iter(<<>>, FALSE))
    /\ wire = SocketPair(0)
    /\ server = NewServer
    /\ listener \in {Listening(tls) : tls \in BOOLEAN}
    /\ svcProxy = ServiceProxy("none", {})
    /\ fn = Signature("callable", NoCallable, FALSE, EmptyDict)
    /\ http = Constructing(<<>>)
    /\ reg = Registry({})
    /\ serving = Serving("tcp", "absent")
    /\ dual = DualCall(0, 1)
    /\ cli = NewClient

\* A client connects to the listening socket.
Arrive ==
    /\ listener.arrived < MaxConns
    /\ listener' = [listener EXCEPT !.arrived = @ + 1,
                                    !.backlog = Append(@, listener.arrived + 1)]
    /\ UNCHANGED besidesListener

\* The loop condition: leave the loop (finally: stopped.set(), and serve()
\* returns) or call accept().
LoopCheck ==
    /\ listener.pc = "check"
    /\ listener' = IF LoopExit(listener.stop)
                   THEN [listener EXCEPT !.pc = "returned", !.stopped = TRUE]
                   ELSE [listener EXCEPT !.pc = "accept"]
    /\ UNCHANGED besidesListener

\* sock.accept() returns a connection: it is wrapped if there is an ssl
\* context, and handed to a handler thread otherwise.
AcceptConn ==
    /\ listener.pc = "accept"
    /\ listener.backlog # <<>>
    /\ LET l == Counted([listener EXCEPT !.backlog = Tail(@)])
           c == Head(listener.backlog)
       IN  listener' = IF listener.tls
                       THEN [l EXCEPT !.pc = "wrap", !.cur = c]
                       ELSE StartHandler(l, c)
    /\ UNCHANGED besidesListener

\* sock.accept() raises socket.timeout after ACCEPT_TIMEOUT with no connection.
AcceptTimeout ==
    /\ listener.pc = "accept"
    /\ listener.backlog = <<>>
    /\ listener' = IF AcceptExcept("timeout") = "continue"
                   THEN Counted([listener EXCEPT !.pc = "check"])
                   ELSE Propagate(Counted(listener))
    /\ UNCHANGED besidesListener

\* sock.accept() raises another OSError for the connection at the head of the
\* backlog (ECONNABORTED: the peer has reset it).
AcceptError ==
    /\ listener.pc = "accept"
    /\ listener.backlog # <<>>
    /\ listener.failures < MaxFailures
    /\ LET l == Counted([listener EXCEPT !.backlog = Tail(@), !.failures = @ + 1])
       IN  listener' = IF AcceptExcept("OSError") = "continue"
                       THEN [l EXCEPT !.pc = "check"]
                       ELSE Propagate(l)
    /\ UNCHANGED besidesListener

\* ctx.wrap_socket(client_sock, server_side=True) returns.
WrapOk ==
    /\ listener.pc = "wrap"
    /\ listener' = StartHandler(listener, listener.cur)
    /\ UNCHANGED besidesListener

\* ctx.wrap_socket raises: ssl.SSLError (the handshake failed), or an OSError
\* that is no SSLError (the peer reset the connection during the handshake).
WrapError ==
    /\ listener.pc = "wrap"
    /\ listener.failures < MaxFailures
    /\ \E exc \in {"SSLError", "OSError"} :
          LET l == [listener EXCEPT !.failures = @ + 1]
          IN  listener' = IF WrapExcept(exc) = "continue"
                          THEN [l EXCEPT !.pc = "check"]
                          ELSE Propagate(l)
    /\ UNCHANGED besidesListener

\* Server.stop(): transport.stop() sets the stop event.
Stop ==
    /\ ~listener.stop
    /\ listener.pc \in {"check", "accept", "wrap"}
    /\ listener' = [listener EXCEPT !.stop = TRUE]
    /\ UNCHANGED besidesListener

\* The peer of an accepted connection closes: its handler's recv_msg returns
\* None, Protocol.handle returns and the thread ends.
PeerClose ==
    /\ \E c \in listener.handlers :
          listener' = [listener EXCEPT !.handlers = @ \ {c}, !.closed = @ \cup {c}]
    /\ UNCHANGED besidesListener

\* A step of the thread that runs serve().
ServeStep ==
    \/ LoopCheck
    \/ AcceptConn
    \/ AcceptTimeout
    \/ AcceptError
    \/ WrapOk
    \/ WrapError

NextServe ==
    \/ Arrive
    \/ LoopCheck
    \/ AcceptConn
    \/ AcceptTimeout
    \/ AcceptError
    \/ WrapOk
    \/ WrapError
    \/ Stop
    \/ PeerClose

\* The thread that runs serve() keeps running: accept() returns or times out
\* and a TLS handshake ends.
SpecServe == InitServe /\ [][NextServe]_vars /\ WF_vars(ServeStep)

\* ------------------------------------------------- a ServiceProxy on its own

\* service.ServiceProxy and a caller that reads attributes from it.

\* Everything but svcProxy.
besidesProxy == <<connection, rt, si, wire, server, listener, fn, http, reg, serving, dual, cli>>

\* The sets of names a service may declare.
Declarations == SUBSET {CommandNames[i] : i \in 1..Len(CommandNames)}

InitProxy ==
    /\ InitConnection
    /\ peer = "other"
    /\ retry_count = 0
    /\ rt = RetryObject(0, 1)
    /\ si = Unwrapped(Iter(<<>>, FALSE))
    /\ wire = SocketPair(0)
    /\ server = NewServer
    /\ listener = Listening(FALSE)
    /\ svcProxy \in {ServiceProxy(metadata, declared) :
                    metadata \in {"fetched", "supplied", "none"},
                    declared \in Declarations}
    /\ fn = Signature("callable", NoCallable, FALSE, EmptyDict)
    /\ http = Constructing(<<>>)
    /\ reg = Registry({})
    /\ serving = Serving("tcp", "absent")
    /\ dual = DualCall(0, 1)
    /\ cli = NewClient

\* The caller reads proxy.<cmd_name>.
GetAttr ==
    /\ svcProxy.accesses < MaxAccesses
    /\ \E cmd_name \in ProxyAttrs : svcProxy' = getattr(svcProxy, cmd_name)
    /\ UNCHANGED besidesProxy

NextProxy == GetAttr

SpecProxy == InitProxy /\ [][NextProxy]_vars

\* ------------------------------------------------- signatures on their own

\* utils.function.func_to_dict and dict_to_func: a callable is described, the
\* description is made into a callable, and that callable is described again;
\* or the description is one a server sent.

\* Everything but fn.
besidesFn == <<connection, rt, si, wire, server, listener, svcProxy, http, reg, serving, dual, cli>>

ParamNames == {<<"a">>, <<"b">>}

\* Names a description may hold: two identifiers, a name that starts with a
\* digit, a name with a parenthesis in it, and a keyword.
WireNames == ParamNames \cup {<<"1", "a">>, <<"a", "(">>, <<"i", "f">>}

Defaults == {Empty, NoneV, PyValue("int", <<"4", "2">>)}

Kinds == POSITIONAL_ONLY..VAR_KEYWORD

\* The parameter lists a def statement of Python accepts.
Signatures ==
    {ps \in UNION {[1..n -> {Parameter(n1, k, d) :
                                n1 \in ParamNames, k \in Kinds, d \in Defaults}] :
                    n \in 0..MaxParams} :
        /\ \A i, j \in 1..Len(ps) : ps[i].name = ps[j].name => i = j
        /\ \A i, j \in 1..Len(ps) : i < j => ps[i].kind <= ps[j].kind
        /\ \A i, j \in 1..Len(ps) :
              ps[i].kind = ps[j].kind /\ ps[i].kind \in {VAR_POSITIONAL, VAR_KEYWORD}
                  => i = j
        /\ \A i \in 1..Len(ps) :
              ps[i].kind \in {VAR_POSITIONAL, VAR_KEYWORD} => ps[i].default = Empty
        /\ \A i, j \in 1..Len(ps) :
              (i < j /\ ps[j].kind <= POSITIONAL_OR_KEYWORD /\ ps[i].default # Empty)
                  => ps[j].default # Empty}

\* The _meta attribute the decorators leave: none, @command(a=bool),
\* @command(a='stream') and @param('b', doc='d').
Metas ==
    {EmptyDict,
     Put(EmptyDict, "params",
         <<[key |-> <<"a">>, val |-> Put(EmptyDict, "hint", "bool")]>>),
     Put(Put(EmptyDict, "params",
             <<[key |-> <<"a">>, val |-> Put(EmptyDict, "hint", "stream")]>>),
         "stream", <<"a">>),
     Put(EmptyDict, "params",
         <<[key |-> <<"b">>, val |-> Put(EmptyDict, "doc", PyValue("str", <<"d">>))]>>)}

Callables ==
    {Callable(<<"f">>, doc, ps, isgen, "own", meta) :
        doc \in {NoneV, PyValue("str", <<"d">>)}, ps \in Signatures,
        isgen \in BOOLEAN, meta \in Metas}

\* The descriptions a server may send: any name, any names of parameters.
Descriptions ==
    {Put(Put(Put(EmptyDict, "name", n), "doc", NoneV), "params", ps) :
        n \in WireNames,
        ps \in UNION {[1..k -> {Put(Put(EmptyDict, "name", n1), "kind", kd) :
                                  n1 \in WireNames, kd \in Kinds}] :
                      k \in 0..MaxParams}}

InitFunction ==
    /\ InitConnection
    /\ peer = "other"
    /\ retry_count = 0
    /\ rt = RetryObject(0, 1)
    /\ si = Unwrapped(Iter(<<>>, FALSE))
    /\ wire = SocketPair(0)
    /\ server = NewServer
    /\ listener = Listening(FALSE)
    /\ svcProxy = ServiceProxy("none", {})
    /\ \/ \E func \in Callables, remove_self \in BOOLEAN :
              fn = Signature("callable", func, remove_self, EmptyDict)
       \/ \E data \in Descriptions :
              fn = Signature("received", NoCallable, FALSE, data)
    /\ http = Constructing(<<>>)
    /\ reg = Registry({})
    /\ serving = Serving("tcp", "absent")
    /\ dual = DualCall(0, 1)
    /\ cli = NewClient

\* d1 = func_to_dict(func, remove_self).
FuncToDict ==
    /\ fn.pc = "callable"
    /\ fn' = [fn EXCEPT !.pc = "encoded",
                         !.d1 = func_to_dict(fn.func, fn.remove_self)]
    /\ UNCHANGED besidesFn

\* dict_to_func(d1, callback), of a description made here or received.
DictToFunc ==
    /\ fn.pc \in {"encoded", "received"}
    /\ LET out == dict_to_func(fn.d1, "callback")
       IN  fn' = [fn EXCEPT !.pc = IF out.exc = "" THEN "decoded" ELSE "raised",
                            !.from = fn.pc,
                            !.out = out]
    /\ UNCHANGED besidesFn

\* d2 = func_to_dict(the callable dict_to_func returned).
FuncToDictAgain ==
    /\ fn.pc = "decoded"
    /\ fn' = [fn EXCEPT !.pc = "reencoded",
                         !.d2 = func_to_dict(fn.out.func, FALSE)]
    /\ UNCHANGED besidesFn

NextFunction ==
    \/ FuncToDict
    \/ DictToFunc
    \/ FuncToDictAgain

SpecFunction == InitFunction /\ [][NextFunction]_vars

\* ----------------------------------------------- an HTTPTransport on its own

\* transport.http.HTTPTransport made from a URL, and connections made
\* through it.

\* Everything but http.
besidesHttp == <<connection, rt, si, wire, server, listener, svcProxy, fn, reg, serving, dual, cli>>

\* The URLs a caller may give: with or without a scheme, a host, a port and
\* a path.
Urls ==
    {scheme \o host \o port \o path :
        scheme \in {<<>>, <<"http", "://">>, <<"tcp", "://">>, <<"unix", "://">>},
        host \in {<<>>, <<"h">>, <<"*">>},
        port \in {<<>>, <<":", "0">>, <<":", "80">>},
        path \in {<<>>, <<"/">>, <<"/", "p">>}}

InitHttp ==
    /\ InitConnection
    /\ peer = "other"
    /\ retry_count = 0
    /\ rt = RetryObject(0, 1)
    /\ si = Unwrapped(Iter(<<>>, FALSE))
    /\ wire = SocketPair(0)
    /\ server = NewServer
    /\ listener = Listening(FALSE)
    /\ svcProxy = ServiceProxy("none", {})
    /\ fn = Signature("callable", NoCallable, FALSE, EmptyDict)
    /\ \E url \in Urls : http = Constructing(url)
    /\ reg = Registry({})
    /\ serving = Serving("tcp", "absent")
    /\ dual = DualCall(0, 1)
    /\ cli = NewClient

\* transport = HTTPTransport(url).
NewHTTPTransport ==
    /\ http.pc = "new"
    /\ LET made == HTTPTransport(http.text)
       IN  http' = [http EXCEPT !.pc = IF made.exc = "" THEN "made" ELSE "raised",
                                !.transport = made]
    /\ UNCHANGED besidesHttp

\* transport.connect(client).
HttpConnect ==
    /\ http.pc = "made"
    /\ Len(http.transport.connected) < MaxConnects
    /\ http' = [http EXCEPT !.transport = connect(@)]
    /\ UNCHANGED besidesHttp

NextHttp ==
    \/ NewHTTPTransport
    \/ HttpConnect

SpecHttp == InitHttp /\ [][NextHttp]_vars

\* ------------------------------------------------- the registries on their own

\* registry.init(), RegistryMeta.get and RegistryMeta.names, called by
\* several threads.  A step is one statement of a thread.

\* Everything but reg.
besidesReg == <<connection, rt, si, wire, server, listener, svcProxy, fn, http, serving, dual, cli>>

Threads == 1..MaxThreads

InitRegistry ==
    /\ InitConnection
    /\ peer = "other"
    /\ retry_count = 0
    /\ rt = RetryObject(0, 1)
    /\ si = Unwrapped(Iter(<<>>, FALSE))
    /\ wire = SocketPair(0)
    /\ server = NewServer
    /\ listener = Listening(FALSE)
    /\ svcProxy = ServiceProxy("none", {})
    /\ fn = Signature("callable", NoCallable, FALSE, EmptyDict)
    /\ http = Constructing(<<>>)
    /\ reg = Registry(Threads)
    /\ serving = Serving("tcp", "absent")
    /\ dual = DualCall(0, 1)
    /\ cli = NewClient

\* A thread calls init(): `with _init_lock:` waits for the lock.
RegInitCall(t) ==
    /\ reg.pc[t] = "idle"
    /\ reg.inits[t] < MaxInits
    /\ reg' = [reg EXCEPT !.pc[t] = "acquire", !.inits[t] = @ + 1]
    /\ UNCHANGED besidesReg

RegAcquire(t) ==
    /\ reg.pc[t] = "acquire"
    /\ reg.lock = 0
    /\ reg' = [reg EXCEPT !.lock = t, !.pc[t] = "check"]
    /\ UNCHANGED besidesReg

\* `if _initialized.is_set(): return`, which releases the lock; otherwise the
\* loop over _metaclasses starts.
RegCheck(t) ==
    /\ reg.pc[t] = "check"
    /\ IF AlreadyInitialized(reg.initialized)
       THEN reg' = [reg EXCEPT !.lock = 0, !.pc[t] = "idle"]
       ELSE reg' = [reg EXCEPT !.pc[t] = "loop", !.todo[t] = [i \in 1..Len(RegistryNames) |-> i]]
    /\ UNCHANGED besidesReg

\* meta.init(meta_name): the import pass of one registry.
RegPass(t) ==
    /\ reg.pc[t] = "loop"
    /\ reg.todo[t] # <<>>
    /\ reg' = [reg EXCEPT !.passes[Head(reg.todo[t])] = @ + 1,
                          !.todo[t] = Tail(@)]
    /\ UNCHANGED besidesReg

\* _initialized.set(), and the end of the with block.
RegSet(t) ==
    /\ reg.pc[t] = "loop"
    /\ reg.todo[t] = <<>>
    /\ reg' = [reg EXCEPT !.initialized = TRUE, !.lock = 0, !.pc[t] = "idle"]
    /\ UNCHANGED besidesReg

\* A thread calls RegistryMeta.get(name) or names(): _initialized.wait().
RegReadCall(t) ==
    /\ reg.pc[t] = "idle"
    /\ reg.reads[t] < MaxReads
    /\ reg' = [reg EXCEPT !.pc[t] = "wait"]
    /\ UNCHANGED besidesReg

\* wait() returns once the event is set; the registry is read and the call
\* returns.
RegReadReturn(t) ==
    /\ reg.pc[t] = "wait"
    /\ reg.initialized
    /\ reg' = [reg EXCEPT !.pc[t] = "idle", !.reads[t] = @ + 1]
    /\ UNCHANGED besidesReg

NextRegistry ==
    \E t \in Threads :
        \/ RegInitCall(t)
        \/ RegAcquire(t)
        \/ RegCheck(t)
        \/ RegPass(t)
        \/ RegSet(t)
        \/ RegReadCall(t)
        \/ RegReadReturn(t)

SpecRegistry == InitRegistry /\ [][NextRegistry]_vars

\* --------------------------------------------- serve() from its start, on its own

\* TcpTransport.serve and UnixTransport.serve run by a thread, from the
\* moment the thread is started; stop() and join() called by other threads.

\* Everything but serving.
besidesServing == <<connection, rt, si, wire, server, listener, svcProxy, fn, http, reg, dual, cli>>

InitStart ==
    /\ InitConnection
    /\ peer = "other"
    /\ retry_count = 0
    /\ rt = RetryObject(0, 1)
    /\ si = Unwrapped(Iter(<<>>, FALSE))
    /\ wire = SocketPair(0)
    /\ server = NewServer
    /\ listener = Listening(FALSE)
    /\ svcProxy = ServiceProxy("none", {})
    /\ fn = Signature("callable", NoCallable, FALSE, EmptyDict)
    /\ http = Constructing(<<>>)
    /\ reg = Registry({})
    /\ \E kind \in {"tcp", "unix"}, path \in {"absent", "file"} :
          serving = Serving(kind, IF kind = "unix" THEN path ELSE "absent")
    /\ dual = DualCall(0, 1)
    /\ cli = NewClient

\* self.bind(): UnixTransport.bind discards the file at the path and binds;
\* TcpTransport.bind binds.  An exception of bind() leaves TcpTransport.serve
\* before its try statement.
RunBind ==
    /\ serving.pc = "start"
    /\ \E failing \in BOOLEAN :
          LET bound == SockBind(serving.kind,
                                IF serving.kind = "unix"
                                THEN discard_file(serving.path)
                                ELSE serving.path,
                                failing)
          IN  serving' = [serving EXCEPT
                             !.path = bound.path,
                             !.exc = bound.exc,
                             !.pc = IF bound.exc = "" THEN "clear"
                                    ELSE IF serving.kind = "unix" THEN "discard"
                                    ELSE "raised"]
    /\ UNCHANGED besidesServing

\* stop.clear(); stopped.clear().
RunClear ==
    /\ serving.pc = "clear"
    /\ serving' = [serving EXCEPT !.stop = FALSE, !.stopped = FALSE, !.pc = "check"]
    /\ UNCHANGED besidesServing

\* `while not stop.is_set()`.
RunLoopCheck ==
    /\ serving.pc = "check"
    /\ serving' = [serving EXCEPT !.pc = IF LoopExit(serving.stop) THEN "finally"
                                         ELSE "accept"]
    /\ UNCHANGED besidesServing

\* sock.accept() returns a connection and its handler thread is started.
RunAccept ==
    /\ serving.pc = "accept"
    /\ serving.accepted < MaxAccepted
    /\ serving' = [serving EXCEPT !.accepted = @ + 1, !.pc = "check"]
    /\ UNCHANGED besidesServing

\* sock.accept() raises: socket.timeout after ACCEPT_TIMEOUT, or another
\* exception.
RunAcceptRaises ==
    /\ serving.pc = "accept"
    /\ \E exc \in {"timeout", "OSError"} :
          /\ exc = "OSError" => serving.failures < MaxAcceptErrors
          /\ serving' = IF AcceptExcept(exc) = "continue"
                        THEN [serving EXCEPT !.pc = "check"]
                        ELSE [serving EXCEPT !.pc = "finally", !.exc = exc,
                                             !.failures = @ + 1]
    /\ UNCHANGED besidesServing

\* TcpTransport.serve's `finally: stopped.set()`.
RunFinally ==
    /\ serving.pc = "finally"
    /\ serving' = [serving EXCEPT
                      !.stopped = TRUE,
                      !.pc = IF serving.kind = "unix" THEN "discard"
                             ELSE IF serving.exc = "" THEN "returned" ELSE "raised"]
    /\ UNCHANGED besidesServing

\* UnixTransport.serve's `finally: utils.path.discard_file(self._path)`.
RunDiscard ==
    /\ serving.pc = "discard"
    /\ serving' = [serving EXCEPT
                      !.path = discard_file(serving.path),
                      !.pc = IF serving.exc = "" THEN "returned" ELSE "raised"]
    /\ UNCHANGED besidesServing

\* Another thread calls stop(): self._stop.set().
CallStop ==
    /\ serving.stops < MaxStops
    /\ serving' = [serving EXCEPT !.stop = TRUE, !.stops = @ + 1]
    /\ UNCHANGED besidesServing

\* Another thread calls join(): self._stopped.wait(None).
CallJoin ==
    /\ serving.joiner = "idle"
    /\ serving' = [serving EXCEPT !.joiner = "waiting"]
    /\ UNCHANGED besidesServing

JoinReturns ==
    /\ serving.joiner = "waiting"
    /\ serving.stopped
    /\ serving' = [serving EXCEPT !.joiner = "joined"]
    /\ UNCHANGED besidesServing

\* The steps of the thread that runs serve().
RunStep ==
    \/ RunBind
    \/ RunClear
    \/ RunLoopCheck
    \/ RunAccept
    \/ RunAcceptRaises
    \/ RunFinally
    \/ RunDiscard

NextStart ==
    \/ RunStep
    \/ CallStop
    \/ CallJoin
    \/ JoinReturns

\* The thread that runs serve() and a thread that waits in join() go on
\* running.
SpecStart ==
    InitStart /\ [][NextStart]_vars /\ WF_vars(RunStep) /\ WF_vars(JoinReturns)

\* ------------------------------------ a stream in both directions, on its own

\* Protocol.send_cmd, and Protocol.handle running the test service's
\* dualstream (`for x in stream: yield x`), on a connection each direction
\* of which holds at most `cap` unread messages: send_msg blocks while its
\* direction is full.  A step is one send_msg or one recv_msg.

\* Everything but dual.
besidesDual ==
    <<connection, rt, si, wire, server, listener, svcProxy, fn, http, reg, serving, cli>>

InitDual ==
    /\ InitConnection
    /\ peer = "other"
    /\ retry_count = 0
    /\ rt = RetryObject(0, 1)
    /\ si = Unwrapped(Iter(<<>>, FALSE))
    /\ wire = SocketPair(0)
    /\ server = NewServer
    /\ listener = Listening(FALSE)
    /\ svcProxy = ServiceProxy("none", {})
    /\ fn = Signature("callable", NoCallable, FALSE, EmptyDict)
    /\ http = Constructing(<<>>)
    /\ reg = Registry({})
    /\ serving = Serving("tcp", "absent")
    /\ \E n \in 0..MaxUpload, cap \in 1..MaxBuffer : dual = DualCall(n, cap)
    /\ cli = NewClient

\* send_cmd: send_msg of the Command, then send_stream's send_msg calls.
DualClientSend ==
    /\ dual.cpc = "send"
    /\ Len(dual.c2s) < dual.cap
    /\ dual' = [dual EXCEPT !.c2s = Append(@, dual.out[dual.sent + 1]),
                            !.sent = @ + 1,
                            !.cpc = IF dual.sent + 1 = Len(dual.out) THEN "recv" ELSE "send"]
    /\ UNCHANGED besidesDual

\* send_cmd: msg = self.recv_msg() and the match statement.
DualClientRecv ==
    /\ dual.cpc = "recv"
    /\ dual.s2c # <<>>
    /\ dual' = [dual EXCEPT
                   !.s2c = Tail(@),
                   !.cpc = IF Head(dual.s2c).tag = "StreamStartMessage" THEN "iter"
                           ELSE IF Head(dual.s2c).tag = "DataMessage" THEN "stopped"
                           ELSE "raised",
                   !.got = IF Head(dual.s2c).tag = "DataMessage"
                           THEN <<Head(dual.s2c).data>> ELSE @]
    /\ UNCHANGED besidesDual

\* The caller calls next() on the iterator, which was suspended at its yield.
DualClientResume ==
    /\ dual.cpc = "iter"
    /\ dual.cst = "yielded"
    /\ dual' = IF RecvStreamResume = "raise"
               THEN [dual EXCEPT !.cpc = "raised"]
               ELSE [dual EXCEPT !.cst = "loop"]
    /\ UNCHANGED besidesDual

\* recv_stream's loop on the client: recv_msg and the match statement.
DualClientNext ==
    /\ dual.cpc = "iter"
    /\ dual.cst = "loop"
    /\ dual.s2c # <<>>
    /\ LET r == RecvStreamOnMsg(Received(Head(dual.s2c)))
       IN  dual' = [dual EXCEPT
                      !.s2c = Tail(@),
                      !.cst = IF r.out = "yield" THEN "yielded" ELSE @,
                      !.got = IF r.out = "yield" THEN Append(@, r.val) ELSE @,
                      !.cpc = IF r.out = "yield" THEN "iter"
                              ELSE IF r.out = "return" THEN "stopped" ELSE "raised"]
    /\ UNCHANGED besidesDual

\* handle: recv_msg; a Command runs dualstream, whose result is a generator
\* that send_stream sends; any other message is answered with an Error.
DualServerLoop ==
    /\ dual.spc = "loop"
    /\ dual.c2s # <<>>
    /\ dual' = IF Head(dual.c2s).tag = "CommandMessage"
               THEN [dual EXCEPT !.c2s = Tail(@), !.spc = "start", !.sst = "init",
                                 !.invoked = @ + 1]
               ELSE [dual EXCEPT !.c2s = Tail(@), !.spc = "err"]
    /\ UNCHANGED besidesDual

\* A send_msg of the server: StreamStart, Data(val), StreamEnd or Error.
DualServerSend ==
    /\ dual.spc \in {"start", "data", "end", "err"}
    /\ Len(dual.s2c) < dual.cap
    /\ dual' = [dual EXCEPT
                   !.s2c = Append(@, CASE dual.spc = "start" -> StreamStartMessage
                                       [] dual.spc = "data" -> DataMessage(dual.val)
                                       [] dual.spc = "end" -> StreamEndMessage
                                       [] OTHER -> send_err(MessageError, FALSE)),
                   !.spc = IF dual.spc \in {"start", "data"} THEN "pull" ELSE "loop"]
    /\ UNCHANGED besidesDual

\* send_stream draws from dualstream, which draws from recv_stream, which
\* was suspended at its yield.
DualServerResume ==
    /\ dual.spc = "pull"
    /\ dual.sst = "yielded"
    /\ dual' = IF RecvStreamResume = "raise"
               THEN [dual EXCEPT !.spc = "err"]
               ELSE [dual EXCEPT !.sst = "loop"]
    /\ UNCHANGED besidesDual

\* recv_stream on the server: recv_msg, then its prologue or its loop body.
DualServerPull ==
    /\ dual.spc = "pull"
    /\ dual.sst \in {"init", "loop"}
    /\ dual.c2s # <<>>
    /\ LET r == Received(Head(dual.c2s))
       IN  IF dual.sst = "init"
           THEN dual' = [dual EXCEPT
                           !.c2s = Tail(@),
                           !.sst = IF RecvStreamStart(r).out = "loop" THEN "loop" ELSE @,
                           !.spc = IF RecvStreamStart(r).out = "loop" THEN "pull" ELSE "err"]
           ELSE dual' = [dual EXCEPT
                           !.c2s = Tail(@),
                           !.sst = IF RecvStreamOnMsg(r).out = "yield" THEN "yielded" ELSE @,
                           !.val = IF RecvStreamOnMsg(r).out = "yield"
                                   THEN RecvStreamOnMsg(r).val ELSE @,
                           !.spc = IF RecvStreamOnMsg(r).out = "yield" THEN "data"
                                   ELSE IF RecvStreamOnMsg(r).out = "return" THEN "end"
                                   ELSE "err"]
    /\ UNCHANGED besidesDual

DualClientStep ==
    \/ DualClientSend
    \/ DualClientRecv
    \/ DualClientResume
    \/ DualClientNext

DualServerStep ==
    \/ DualServerLoop
    \/ DualServerSend
    \/ DualServerResume
    \/ DualServerPull

NextDual ==
    \/ DualClientStep
    \/ DualServerStep

\* The client's thread and the handler's thread go on running.
SpecDual ==
    InitDual /\ [][NextDual]_vars /\ WF_vars(DualClientStep) /\ WF_vars(DualServerStep)

\* ------------------------------------------- a Client and its connections

\* Everything but cli.
besidesCli == <<connection, rt, si, wire, server, listener, svcProxy, fn, http, reg, serving, dual>>

InitClient ==
    /\ InitConnection
    /\ peer = "other"
    /\ retry_count = 0
    /\ rt = RetryObject(0, 1)
    /\ si = Unwrapped(Iter(<<>>, FALSE))
    /\ wire = SocketPair(0)
    /\ server = NewServer
    /\ listener = Listening(FALSE)
    /\ svcProxy = ServiceProxy("none", {})
    /\ fn = Signature("callable", NoCallable, FALSE, EmptyDict)
    /\ http = Constructing(<<>>)
    /\ reg = Registry({})
    /\ serving = Serving("tcp", "absent")
    /\ dual = DualCall(0, 1)
    /\ cli = NewClient

\* A caller invokes a streaming proxy command: wrap_call.call connects and
\* runs send_cmd up to `yield isgen`, or to the TransportError of a
\* connection the peer has dropped.
ClientCall(k) ==
    /\ cli.streams[k].st = "none"
    /\ cli._con # 0 \/ Undialed(cli) # {}
    /\ LET cl == ClientConnect(cli)
           c == cl._con
       IN  cli' = IF Usable(cl, c)
                  THEN [cl EXCEPT !.streams[k] = [st |-> "live", con |-> c, drawn |-> 0]]
                  ELSE ClientExcept(cl, k, c, Exc(N_TransportError, <<>>, TRUE))
    /\ UNCHANGED besidesCli

\* The caller draws from the generator of stream k: `for r in res: yield r`
\* reads from the connection the call was started on.
ClientNext(k) ==
    /\ cli.streams[k].st = "live"
    /\ LET c == cli.streams[k].con
       IN  IF Usable(cli, c)
           THEN \/ /\ cli.streams[k].drawn < MaxDrawn
                   /\ cli' = [cli EXCEPT !.streams[k].drawn = @ + 1]
                \/ cli' = [cli EXCEPT !.streams[k].st = "ended"]
           ELSE cli' = ClientExcept(cli, k, c, Exc(N_TransportError, <<>>, TRUE))
    /\ UNCHANGED besidesCli

\* The application calls Client.close().
ClientCloseCall ==
    /\ cli' = ClientClose(cli)
    /\ UNCHANGED besidesCli

\* The peer drops connection c.
ClientLose(c) ==
    /\ cli.socks[c] = "open"
    /\ c \notin cli.lost
    /\ cli' = [cli EXCEPT !.lost = @ \cup {c}]
    /\ UNCHANGED besidesCli

NextClient ==
    \/ \E k \in StreamIds : ClientCall(k)
    \/ \E k \in StreamIds : ClientNext(k)
    \/ ClientCloseCall
    \/ \E c \in ConnIds : ClientLose(c)

SpecClient == InitClient /\ [][NextClient]_vars

\* ------------------------------------------------------------ properties

\* Vocabulary of the properties below.

\* A terminal response: one Data, or one Error, or StreamStart, Data frames,
\* then one StreamEnd or Error.
TerminalResponse(r) ==
    \/ Len(r) = 1 /\ r[1].tag \in {"DataMessage", "ErrorMessage"}
    \/ /\ Len(r) >= 2
       /\ r[1].tag = "StreamStartMessage"
       /\ \A i \in 2..(Len(r) - 1) : r[i].tag = "DataMessage"
       /\ r[Len(r)].tag \in {"StreamEndMessage", "ErrorMessage"}

\* Call k is the one whose Command the handler dealt with last, and the
\* handler has read no left-over frame of it since.
Answered(k) ==
    /\ srv.cmd = k
    /\ srv.strays = 0
    /\ calls[k].st \notin {"none", "past"}
    /\ calls[k].wrote

\* Call k has ended, having read frames written for its own Command only.
EndedOnOwnFrames(k) ==
    /\ calls[k].st = "done"
    /\ \A i \in 1..Len(calls[k].read) : calls[k].read[i] = k

ProducedValues(n) == [i \in 1..n |-> Produced(i)]

\* The payloads of the frames of Command k the handler has not read yet.
Unread(k) ==
    LET Mine(f) == f.kind = "enc" /\ f.cmd = k
        fs == SelectSeq(c2s, Mine)
    IN  [i \in 1..Len(fs) |-> fs[i].payload]

IsSuffix(s, t) ==
    /\ Len(s) <= Len(t)
    /\ s = SubSeq(t, Len(t) - Len(s) + 1, Len(t))

\* The argument list with the stream sentinel in the slot of each stream.
WithSentinel(args) ==
    [i \in 1..Len(args) |-> IF args[i].type = "gen" THEN Sentinel ELSE args[i]]

WithSentinelKW(kwargs) ==
    [i \in 1..Len(kwargs) |->
        IF kwargs[i].arg.type = "gen" THEN KW(kwargs[i].name, Sentinel) ELSE kwargs[i]]

\* The argument list with a receive stream in the slot of each stream.
WithRecvStream(args) ==
    [i \in 1..Len(args) |-> IF args[i].type = "gen" THEN RecvStreamArg ELSE args[i]]

WithRecvStreamKW(kwargs) ==
    [i \in 1..Len(kwargs) |->
        IF kwargs[i].arg.type = "gen" THEN KW(kwargs[i].name, RecvStreamArg)
        ELSE kwargs[i]]

\* C1: for every Command the handler receives it sends exactly one terminal
\* response (one Data, or one Error, or StreamStart, Data frames and one
\* StreamEnd or Error), whatever the command does: return a value or a
\* generator, raise any exception (a TransportError subclass included),
\* consume its stream argument fully, partly or not at all.
C1_OneTerminalResponse == srv.cmd # 0 => TerminalResponse(resp)

\* C2: every proxy call returns or raises the result of its own Command: no
\* call reads a frame the server produced for an earlier Command, for any
\* sequence of calls (calls that raised, calls with a stream argument,
\* response streams the caller stopped iterating).
C2_ResponseOfOwnCommand ==
    \A k \in CallIds : \A i \in 1..Len(calls[k].read) : calls[k].read[i] \notin 1..(k - 1)

\* C3: the client never sends a Command while an earlier Command on the
\* connection is incomplete (its response stream not read up to StreamEnd or
\* Error), for any order in which the caller creates, advances and abandons
\* proxy calls and response iterators.
C3_NoCommandWhileIncomplete ==
    [][\A k \in CallIds :
          (~calls[k].wrote /\ calls'[k].wrote) =>
             /\ \A j \in 1..(k - 1) : calls'[j].st # "live"
             /\ \A i \in 1..Len(s2c') :
                   s2c'[i].kind = "eof" \/ s2c'[i].cmd \in {0, k}]_vars

\* C4: for a command whose result is a generator producing n elements the
\* server sends exactly StreamStart, the n Data frames in producer order and
\* StreamEnd, and the client's response iterator yields exactly those n
\* elements in order and then stops; for a non-generator result the server
\* sends exactly one Data frame and the call returns its value.
C4_DownloadStream ==
    \A k \in CallIds :
       (Answered(k) /\ srv.invoked = "cmd" /\ srv.exc = NoExc) =>
          IF srv.beh.kind = "gen"
          THEN /\ resp = <<StreamStartMessage>>
                         \o [i \in 1..srv.beh.n |-> DataMessage(Produced(i))]
                         \o <<StreamEndMessage>>
               /\ (calls[k].proxy = "stream" /\ EndedOnOwnFrames(k)) =>
                     /\ calls[k].got = ProducedValues(srv.beh.n)
                     /\ calls[k].end = "stop"
          ELSE /\ resp = <<DataMessage(Returned)>>
               /\ (calls[k].proxy = "value" /\ EndedOnOwnFrames(k)) =>
                     /\ calls[k].got = <<Returned>>
                     /\ calls[k].end = "return"

\* C5: for a call with one stream argument the client sends the Command with
\* the stream sentinel in the stream's slot, StreamStart, one Data per element
\* in order and StreamEnd before it reads the response; the server's command
\* receives at that same slot an iterator that yields exactly the uploaded
\* elements in order, every other argument unchanged.
C5_UploadStream ==
    \A k \in CallIds :
       (/\ calls[k].st \notin {"none", "past"}
        /\ calls[k].wrote
        /\ Len(Streams(calls[k].args, calls[k].kwargs)) = 1) =>
          LET c == calls[k]
              items == Streams(c.args, c.kwargs)[1].items
          IN  /\ IsSuffix(Unread(k),
                          <<CommandMessage(c.service_name, c.command_name,
                                           WithSentinel(c.args),
                                           WithSentinelKW(c.kwargs)),
                            StreamStartMessage>>
                          \o [i \in 1..Len(items) |-> DataMessage(items[i])]
                          \o <<StreamEndMessage>>)
              /\ (c.read # <<>> /\ c.read[1] = k) => srv.cmd = k
              /\ (srv.cmd = k /\ srv.invoked = "cmd") =>
                    /\ srv.args = WithRecvStream(c.args)
                    /\ srv.kwargs = WithRecvStreamKW(c.kwargs)
                    /\ srv.beh.take = "all" => srv.got = items /\ srv.gotEnd = "stop"

\* C6: if a command's result generator raises after producing k elements the
\* server has sent StreamStart and k Data frames, then sends exactly one Error
\* and no StreamEnd; the client's response iterator yields the k elements in
\* order and then raises RemoteError.
C6_StreamError ==
    \A k \in CallIds :
       (/\ Answered(k)
        /\ srv.invoked = "cmd"
        /\ srv.beh.kind = "gen"
        /\ srv.beh.end = "raise"
        /\ srv.exc = srv.beh.exc
        /\ ~srv.exc.transport) =>
          /\ Len(resp) = srv.beh.n + 2
          /\ resp[1] = StreamStartMessage
          /\ \A i \in 1..srv.beh.n : resp[i + 1] = DataMessage(Produced(i))
          /\ resp[Len(resp)].tag = "ErrorMessage"
          /\ (calls[k].proxy = "stream" /\ EndedOnOwnFrames(k)) =>
                /\ calls[k].got = ProducedValues(srv.beh.n)
                /\ calls[k].end = "raise"
                /\ calls[k].exc.name = N_RemoteError

\* C7: an exception other than a TransportError raised while the handler
\* dispatches or executes a Command (unknown service, unknown command, an
\* exception in the body, a result that cannot be encoded) is sent to the
\* caller as one Error message; the handler loop then goes on reading and the
\* server does not close the connection.
C7_ErrorThenContinue ==
    [][(srv'.cmd # srv.cmd /\ srv'.exc # NoExc /\ ~srv'.exc.transport) =>
          /\ resp' # <<>>
          /\ resp'[Len(resp')].tag = "ErrorMessage"
          /\ resp'[Len(resp')].name = srv'.exc.name
          /\ resp'[Len(resp')].message = srv'.exc.message
          /\ Cardinality({i \in 1..Len(resp') : resp'[i].tag = "ErrorMessage"}) = 1
          /\ s2c' = s2c \o [i \in 1..Len(resp') |->
                               EncFrame(srvCodec, resp'[i], srv'.cmd)]
          /\ spc' = "loop"]_vars

\* The handler has answered a Command with a value after the Command before it
\* ended in an Error, and is still in its loop.
C7_Witness ==
    /\ srv.afterError
    /\ srv.exc = NoExc
    /\ resp = <<DataMessage(Returned)>>
    /\ spc = "loop"

\* C8: when the client reads an Error message as the response to a Command or
\* inside a response stream it raises RemoteError whose name, message and
\* traceback equal the three fields of that Error message, the name being the
\* class name of the exception raised on the server and the message its
\* string form.
C8_RemoteErrorFields ==
    \A k \in CallIds :
       (/\ Answered(k)
        /\ EndedOnOwnFrames(k)
        /\ resp # <<>>
        /\ Len(calls[k].read) = Len(resp)
        /\ resp[Len(resp)].tag = "ErrorMessage") =>
          LET e == resp[Len(resp)] IN
          /\ e.name = srv.exc.name
          /\ e.message = srv.exc.message
          /\ calls[k].end = "raise"
          /\ calls[k].exc.name = N_RemoteError
          /\ calls[k].exc.remote =
                [name |-> e.name, msg |-> e.message, traceback |-> e.traceback]

\* C9: dispatch invokes only attributes of the service that carry the command
\* metadata marker: a Command naming any other attribute (an undecorated
\* method, a dunder attribute, a non-callable) is answered with an Error and
\* nothing is invoked.
C9_OnlyMarkedInvoked ==
    /\ srv.invoked # "" => Attrs[srv.invoked].marked
    /\ \A k \in CallIds :
          (/\ Answered(k)
           /\ calls[k].service_name \in Services
           /\ \/ calls[k].command_name \notin AttrNames
              \/ ~Attrs[calls[k].command_name].marked) =>
             /\ srv.invoked = ""
             /\ Len(resp) = 1
             /\ resp[1].tag = "ErrorMessage"

\* C10: a client constructed without a codec sends the single byte 0x00 as
\* the first frame on its connection; the server answers with one frame made
\* of 0x00 followed by its codec name and treats the next frame as the first
\* real message; after the round trip the client's codec equals the server's,
\* and the Command that triggered the handshake is sent and answered as any
\* other.
C10_HandshakeRoundTrip ==
    [][/\ (nCalls' = nCalls + 1 /\ cliCodec = <<>> /\ calls'[nCalls'].st # "done") =>
             /\ c2s' = Append(IF con = "open" THEN c2s ELSE <<>>, RawFrame(<<"NUL">>, 0))
             /\ nCalls = 0 => c2s' = <<RawFrame(<<"NUL">>, 0)>>
       /\ (~replied /\ replied') =>
             /\ c2s' = Tail(c2s)
             /\ s2c' = Append(s2c, RawFrame(<<"NUL">> \o srvCodec, 0))
       /\ (replied /\ ~replied' /\ ~(con = "closed" /\ con' = "open")) =>
             /\ Len(c2s') < Len(c2s)
             /\ (Head(c2s).kind = "enc" /\ Head(c2s).payload.tag = "CommandMessage") =>
                   srv'.cmd = Head(c2s).cmd
       /\ (cliCodec = <<>> /\ cliCodec' # <<>>) =>
             /\ cliCodec' = srvCodec
             /\ Len(s2c') = Len(s2c) - 1
             /\ \E k \in CallIds :
                   /\ calls[k].st = "wait_hs"
                   /\ calls'[k].wrote
                   /\ Len(c2s') > Len(c2s)
                   /\ c2s'[Len(c2s) + 1].payload.tag = "CommandMessage"
                   /\ c2s'[Len(c2s) + 1].codec = srvCodec
       /\ \A k \in CallIds :
             (/\ calls'[k].hs
              /\ calls'[k].st = "done"
              /\ calls'[k].proxy = "value"
              /\ calls'[k].read = <<k>>
              /\ srv'.cmd = k
              /\ srv'.strays = 0
              /\ srv'.invoked = "cmd"
              /\ srv'.beh = Body("value", "none", 0, "ok", NoExc)) =>
                /\ calls'[k].end = "return"
                /\ calls'[k].got = <<Returned>>]_vars

\* A call that began with the handshake against a server whose codec is not
\* the default one has returned the value of its command.
C10_Witness ==
    /\ srvCodec = <<"j", "s", "o", "n">>
    /\ cliCodec = srvCodec
    /\ calls[1].hs
    /\ calls[1].st = "done"
    /\ calls[1].end = "return"
    /\ calls[1].got = <<Returned>>
    /\ srv.cmd = 1
    /\ srv.invoked = "cmd"

\* Vocabulary of the properties on retries and connections.

\* The number of handshake requests among the frames q.
HandshakeRequests(q) ==
    Cardinality({i \in 1..Len(q) : q[i].kind = "raw" /\ q[i].bytes = <<"NUL">>})

\* The number of stream sentinels among the arguments as they travel.
WireSentinels(args, kwargs) ==
    Cardinality({i \in 1..Len(args) : encode(args[i]).type = "sentinel"})
    + Cardinality({i \in 1..Len(kwargs) : encode(kwargs[i].arg).type = "sentinel"})

\* C11: once the client has a codec (configured at construction or installed
\* by a handshake) no later send issues a handshake request and no protocol
\* step changes the codec, across any sequence of calls, errors, connection
\* closes and redials.
C11_CodecSetOnce ==
    [][cliCodec # <<>> =>
          /\ cliCodec' = cliCodec
          /\ HandshakeRequests(c2s') <= HandshakeRequests(c2s)
          /\ \A k \in CallIds : calls'[k].st # "wait_hs"]_vars

\* A call that began with the handshake lost its connection while it waited
\* for the response, was retried on a new connection and returned.
C11_Witness ==
    /\ cliCodec = srvCodec
    /\ calls[1].hs
    /\ calls[1].retries = 1
    /\ calls[1].read = <<0, 1>>
    /\ calls[1].st = "done"
    /\ calls[1].end = "return"

\* C12: if the frame the client reads in reply to its handshake request does
\* not start with the byte 0x00 the client raises ProtocolOpError, the Command
\* that triggered the handshake is not sent, and the client's codec remains
\* unset.
C12_BadHandshakeReply ==
    [][\A k \in CallIds :
          (/\ calls[k].st = "wait_hs"
           /\ calls'[k].st # "wait_hs"
           /\ Head(s2c).kind = "raw"
           /\ Head(s2c).bytes[1] # "NUL") =>
             /\ calls'[k].st = "done"
             /\ calls'[k].end = "raise"
             /\ calls'[k].exc.name = N_ProtocolOpError
             /\ ~calls'[k].wrote
             /\ c2s' = c2s
             /\ cliCodec' = <<>>]_vars

\* C13: a proxy call whose positional and keyword arguments together hold
\* more than one stream argument raises ParameterError before any frame of
\* that Command is written to the connection.
C13_TwoStreamsRefused ==
    [][\A k \in CallIds :
          (/\ calls[k].st = "none"
           /\ calls'[k].st # "none"
           /\ Len(Streams(calls'[k].args, calls'[k].kwargs)) > 1) =>
             /\ calls'[k].st = "done"
             /\ calls'[k].end = "raise"
             /\ calls'[k].exc.name = N_ParameterError
             /\ ~calls'[k].wrote
             /\ c2s' = IF con = "open" THEN c2s ELSE <<>>]_vars

\* The first call, made with two stream arguments, has raised ParameterError
\* and the connection it dialled carries no frame.
C13_Witness ==
    /\ calls[1].st = "done"
    /\ calls[1].end = "raise"
    /\ calls[1].exc.name = N_ParameterError
    /\ Len(Streams(calls[1].args, calls[1].kwargs)) = 2
    /\ con = "open"
    /\ c2s = <<>>
    /\ s2c = <<>>

\* C14: when the server receives a Command whose args and kwargs together
\* hold more than one stream sentinel it rejects the Command with
\* ParameterError, reported to the caller as an Error, and does not invoke
\* the command.
C14_TwoSentinelsRefused ==
    \A k \in CallIds :
       (/\ Answered(k)
        /\ calls[k].service_name \in Services
        /\ calls[k].command_name = "cmd"
        /\ WireSentinels(calls[k].args, calls[k].kwargs) > 1) =>
          /\ srv.invoked = ""
          /\ Len(resp) = 1
          /\ resp[1].tag = "ErrorMessage"
          /\ resp[1].name = N_ParameterError

\* C15: a proxy command declared non-streaming whose response is a
\* StreamStart raises ParameterError without returning any stream value, and
\* a proxy command declared streaming whose response is a single Data raises
\* ParameterError before yielding any value.
C15_StreamMismatch ==
    [][\A k \in CallIds :
          (/\ calls[k].st = "wait_resp"
           /\ calls'[k].st # "wait_resp"
           /\ Head(s2c).kind = "enc"
           /\ Head(s2c).codec = cliCodec
           /\ \/ /\ calls[k].proxy = "value"
                 /\ Head(s2c).payload.tag = "StreamStartMessage"
              \/ /\ calls[k].proxy = "stream"
                 /\ Head(s2c).payload.tag = "DataMessage") =>
             /\ calls'[k].st = "done"
             /\ calls'[k].end = "raise"
             /\ calls'[k].exc.name = N_ParameterError
             /\ calls'[k].got = <<>>]_vars

\* The first call, through a non-streaming proxy, was answered with a stream
\* of one element and read its StreamStart only; the second, through a
\* streaming proxy, has read the Data frame that follows and raised
\* ParameterError.
C15_Witness ==
    /\ srv.cmd = 1
    /\ srv.beh.kind = "gen"
    /\ srv.beh.n = 1
    /\ srv.exc = NoExc
    /\ calls[2].proxy = "stream"
    /\ calls[2].st = "done"
    /\ calls[2].end = "raise"
    /\ calls[2].exc.name = N_ParameterError
    /\ calls[2].read = <<1>>
    /\ calls[2].got = <<>>

\* An attempt of call k ends in this step by raising an exception.
Raises(k) ==
    /\ calls[k].st \in {"none", "wait_hs", "wait_resp", "wait_elem", "live"}
    /\ calls'[k].st \in {"done", "retry"}
    /\ calls'[k].exc # NoExc

\* The client dials a connection in this step.
Dials == con = "closed" /\ con' = "open"

\* C18: a proxy call is retried only on TransportError: a RemoteError, a
\* ParameterError or a codec error raised by the call reaches the caller at
\* once, with no sleep and no re-invocation and without the client closing
\* its connection, for every retry count (-1 included).
C18_RetryOnlyTransport ==
    [][\A k \in CallIds :
          (Raises(k) /\ ~calls'[k].exc.transport) =>
             /\ calls'[k].st = "done"
             /\ calls'[k].end = "raise"
             /\ calls'[k].retries = calls[k].retries
             /\ con = "open" => con' = "open"
             /\ IF Dials THEN c2s' = <<>> ELSE c2s' = c2s]_vars

\* With unlimited retries, the first call was answered with an Error and has
\* raised RemoteError to the caller at its first attempt; the connection is
\* open.
C18_Witness ==
    /\ retry_count = -1
    /\ srv.cmd = 1
    /\ calls[1].st = "done"
    /\ calls[1].end = "raise"
    /\ calls[1].exc.name = N_RemoteError
    /\ calls[1].retries = 0
    /\ con = "open"

\* C19: whenever a proxy call raises TransportError while sending or
\* receiving, the client's connection has been closed and cleared before the
\* error reaches the retry policy or the caller, so that the next attempt or
\* the next call dials a new connection and never reuses the failed one.
C19_CloseOnTransportError ==
    [][/\ \A k \in CallIds :
             (Raises(k) /\ calls'[k].exc.transport) => con' = "closed"
       /\ \A k \in CallIds :
             (calls[k].st = "retry" /\ calls'[k].st # "retry") => Dials
       /\ \A k \in CallIds :
             (/\ calls[k].st = "none"
              /\ calls'[k].st # "none"
              /\ k > 1
              /\ calls[k - 1].end = "raise"
              /\ calls[k - 1].exc.transport) => Dials
       /\ Dials =>
             /\ s2c' = <<>>
             /\ spc' = "loop"
             /\ ~replied'
             /\ \A i \in 1..Len(c2s') : c2s'[i].kind # "eof"]_vars

\* A client configured with a codec lost its connection while its first call
\* waited for the response; the retry has dialled again and the call has
\* returned the command's value.
C19_Witness ==
    /\ nLost = 1
    /\ ~calls[1].hs
    /\ calls[1].retries = 1
    /\ calls[1].st = "done"
    /\ calls[1].end = "return"
    /\ calls[1].got = <<Returned>>
    /\ con = "open"

\* C20: when a TransportError occurs in the handler loop (while it receives a
\* message, dispatches a Command or sends a response) the handler logs it and
\* terminates the loop for that connection: it reads no further frame from
\* the connection and writes none to it.
C20_TransportErrorEndsLoop ==
    (srv.cmd # 0 /\ srv.exc.transport) => spc = "done"

C17_RetryCall ==
    (rt.mode = "call") =>
       /\ rt.count >= 0 => rt.invoked <= rt.count + 1
       /\ rt.invoked = rt.retries + 1
       /\ rt.slept = rt.retries * rt.interval
       /\ rt.pc = "sleeping" => Whitelisted(rt.exc)
       /\ (rt.pc = "raised" /\ Whitelisted(rt.exc)) =>
             /\ rt.count >= 0
             /\ rt.retries = rt.count
             /\ rt.exc.message = <<rt.invoked>>
       /\ (rt.pc = "raised" /\ rt.count = 0) => rt.invoked = 1 /\ rt.slept = 0
       /\ (rt.pc = "running" /\ rt.fails > 0) =>
             /\ rt.retries = rt.fails
             /\ rt.count >= 0 => rt.retries <= rt.count
       /\ rt.pc = "returned" => rt.out = <<Returned>>

\* Retry.call with count = MaxFails - 1 has re-raised the exception of the
\* last of MaxFails invocations, after sleeping before each but the first.
C17_Witness ==
    /\ rt.mode = "call"
    /\ rt.count = MaxFails - 1
    /\ rt.pc = "raised"
    /\ Whitelisted(rt.exc)
    /\ rt.invoked = MaxFails
    /\ rt.slept = (MaxFails - 1) * rt.interval

\* C21: when the peer closes the connection, a server handler that waits for
\* the next message gets a null message and returns without sending an Error,
\* and a client that waits for a response or for the next stream element
\* raises ReceiveInterrupted, which is a TransportError.
C21_PeerClose ==
    [][/\ (/\ peer = "snekrpc"
           /\ spc = "loop"
           /\ c2s # <<>>
           /\ Head(c2s).kind = "eof"
           /\ nLost' = nLost
           /\ con' = con
           /\ <<c2s, s2c, spc>>' # <<c2s, s2c, spc>>) =>
             /\ spc' = "done"
             /\ s2c' = Append(s2c, EofFrame)
             /\ resp' = resp
             /\ srv' = srv
       /\ \A k \in CallIds :
             (/\ calls[k].st \in {"wait_resp", "wait_elem"}
              /\ calls'[k] # calls[k]
              /\ Head(s2c).kind = "eof") =>
                /\ calls'[k].st \in {"done", "retry"}
                /\ calls'[k].exc.name = N_ReceiveInterrupted
                /\ calls'[k].exc.transport
                /\ calls'[k].st = "done" => calls'[k].end = "raise"
                /\ calls'[k].got = calls[k].got]_vars

\* A client configured with a codec lost its connection while its call waited
\* on the response: the call was retried on a new connection and returned,
\* the client closed, and the handler of the new connection has returned
\* leaving nothing but the end of the connection behind its one response.
C21_Witness ==
    /\ nLost = MaxLost
    /\ ~calls[1].hs
    /\ calls[1].retries = 1
    /\ calls[1].st = "done"
    /\ calls[1].end = "return"
    /\ con = "closed"
    /\ spc = "done"
    /\ c2s = <<EofFrame>>
    /\ s2c = <<EofFrame>>
    /\ srv.cmd = 1
    /\ Len(resp) = 1

\* C29: on a server with remote_tracebacks false every Error message it sends
\* has an empty traceback field whatever exception was raised, so that a
\* client never sees traceback text of the server; only with
\* remote_tracebacks true does the field carry the formatted traceback.
C29_TracebackOnlyIfConfigured ==
    /\ \A i \in 1..Len(resp) :
          resp[i].tag = "ErrorMessage" =>
             (resp[i].traceback # <<>> <=> remote_tracebacks)
    /\ \A i \in 1..Len(s2c) :
          (s2c[i].kind = "enc" /\ s2c[i].payload.tag = "ErrorMessage") =>
             (s2c[i].payload.traceback # <<>> <=> remote_tracebacks)

\* A server with remote_tracebacks false has answered a Command whose body
\* raised with an Error that carries the exception's name and no traceback.
C29_Witness ==
    /\ ~remote_tracebacks
    /\ srv.cmd = 1
    /\ srv.invoked = "cmd"
    /\ srv.exc # NoExc
    /\ Len(resp) = 1
    /\ resp[1].tag = "ErrorMessage"
    /\ resp[1].name = srv.exc.name
    /\ resp[1].traceback = <<>>
    /\ Len(s2c) = 1
    /\ s2c[1].kind = "enc"
    /\ s2c[1].payload = resp[1]

\* C22: StreamInitiator yields exactly the sequence of the iterator it wraps:
\* the element it fetched at construction comes first and once, the others
\* follow in order, nothing is lost or duplicated; for an empty iterator it
\* yields nothing and raises nothing.
C22_StreamInitiator ==
    si.pc # "new" =>
       /\ si.out \o si.head
             \o SubSeq(si.gen.items, si.gen.pos + 1, Len(si.gen.items))
          = si.gen.items
       /\ Len(si.head) <= 1
       /\ si.pc = "stopped" => si.out = si.gen.items /\ ~si.gen.fail
       /\ (si.pc = "raised") => si.gen.fail
       /\ (si.gen.items = <<>> /\ ~si.gen.fail) =>
             si.out = <<>> /\ si.pc \in {"ready", "stopped"}

\* A StreamInitiator over an iterator of MaxItems values, the first two of
\* them equal, has been consumed to its end.
C22_Witness ==
    /\ si.pc = "stopped"
    /\ Len(si.gen.items) = MaxItems
    /\ si.gen.items[1] = si.gen.items[2]
    /\ si.out = si.gen.items

\* Vocabulary of the properties on framing.

\* The number of recv() results that are whole frames: all of them, but for
\* the one that ended on a closed or failed socket.
FramesGot ==
    IF wire.pc \in {"closed", "failed"} THEN Len(wire.got) - 1 ELSE Len(wire.got)

\* The bytes written for the first k payloads sent.
RECURSIVE FrameBytes(_)
FrameBytes(k) ==
    IF k = 0 THEN 0 ELSE FrameBytes(k - 1) + 4 + Len(wire.sent[k])

\* C23: for any sequence of payloads written with send on a connection,
\* successive recv calls at the other end return exactly those payloads,
\* each whole and in the order sent, however the byte stream is split into
\* socket reads and for every chunk_size >= 1; a recv never returns bytes of
\* the frame that follows.
C23_FramesInOrder ==
    /\ FramesGot <= Len(wire.sent)
    /\ \A i \in 1..FramesGot : wire.got[i] = Return(wire.sent[i])
    /\ wire.pc = "idle" => wire.taken = FrameBytes(FramesGot)
    /\ wire.taken <= FrameBytes(Min(FramesGot + 1, Len(wire.sent)))

\* With chunk_size 1, two different payloads of MaxPayload bytes have been
\* sent and both recv calls have returned.
C23_Witness ==
    /\ wire.chunk_size = 1
    /\ Len(wire.sent) = 2
    /\ Len(wire.sent[1]) = MaxPayload
    /\ Len(wire.sent[2]) = MaxPayload
    /\ wire.sent[1] # wire.sent[2]
    /\ wire.pc = "idle"
    /\ wire.got = <<Return(wire.sent[1]), Return(wire.sent[2])>>

\* C24: if the peer closes before all 4 length bytes or all L payload bytes
\* of a frame have arrived, recv returns the empty result and never a partial
\* payload; any other socket error during the read is raised as
\* TransportError.
C24_ShortRead ==
    [][/\ (/\ wire.pc \in {"size", "data"}
           /\ wire.stream = <<>>
           /\ wire.closed
           /\ wire'.pc # wire.pc
           /\ wire'.errors = wire.errors) =>
             /\ wire'.pc = "closed"
             /\ wire'.got = Append(wire.got, Return(<<>>))
       /\ wire'.errors > wire.errors =>
             wire'.got = Append(wire.got, Raising(N_TransportError))
       /\ \A i \in 1..Len(wire'.got) :
             wire'.got[i].out = "return" =>
                \/ wire'.got[i].val = <<>>
                \/ i <= Len(wire'.sent) /\ wire'.got[i].val = wire'.sent[i]]_vars

\* The sender closed when one of the two bytes of its payload had arrived:
\* the receiver has read the length and that byte, and recv has returned the
\* empty result.
C24_Witness ==
    /\ wire.closed
    /\ Len(wire.sent) = 1
    /\ Len(wire.sent[1]) = 2
    /\ wire.taken = 5
    /\ wire.pc = "closed"
    /\ wire.got = <<Return(<<>>)>>

\* C25: Server.add_service with a name (the service's own name, or the alias
\* when one is given) that is already registered on the server raises
\* RegistryError and leaves the service registered before in place.
C25_DuplicateRefused ==
    [][(/\ server'.made = server.made + 1
        /\ server.services[server'.last.name] # NoService) =>
          /\ server'.last.exc = N_RegistryError
          /\ server'.services = server.services]_vars

\* C26: in every reachable state of a server, after any sequence of
\* add_service and remove_service calls, a service is registered under the
\* name _meta and it is the server's metadata service.
C26_MetaAlwaysRegistered ==
    server.services["_meta"] = CreateService("meta", 1)

C28_AcceptFailureSkipped ==
    [][listener'.failures > listener.failures =>
          /\ listener'.pc = "check"
          /\ ~listener'.stopped]_vars

\* C30: on a proxy created with command metadata (fetched from _meta or
\* supplied), reading an attribute whose name is not one of the remote
\* service's commands raises AttributeError, and reading a command name
\* returns the same cached callable at every read, however many commands the
\* remote service declares.
C30_ProxyAttributes ==
    [][(svcProxy.metadata # "none" /\ svcProxy'.accesses = svcProxy.accesses + 1) =>
          IF svcProxy'.last.name \in svcProxy.declared
          THEN /\ svcProxy'.last.exc = <<>>
               /\ svcProxy'.last.result = CommandId(svcProxy'.last.name)
               /\ svcProxy'.last.result = svcProxy'.seen[svcProxy'.last.name]
          ELSE /\ svcProxy'.last.exc = N_AttributeError
               /\ svcProxy'.made = svcProxy.made]_vars

\* C31: describing a callable, making a callable from the description and
\* describing that one again gives the first description back, whatever the
\* kinds of the parameters, keyword-only ones included.
C31_SignatureRoundTrip ==
    (fn.pc = "reencoded" /\ fn.from = "encoded") => fn.d2 = fn.d1

\* The names of a description that are not identifiers.
BadNames(data) ==
    {n \in {data["name"]} \cup {data["params"][i]["name"] : i \in 1..Len(data["params"])} :
        ~is_identifier(n)}

\* C36: a description that holds a parameter name or a command name that is
\* not an identifier is refused with ValueError, and no source text is built
\* from it or executed.
C36_OnlyIdentifiersInSource ==
    (fn.pc \in {"decoded", "raised"} /\ BadNames(fn.d1) # {})
        => (fn.out.exc = "ValueError" /\ fn.out.src = NoSource)

\* C32: HTTPTransport made from an http URL that names no port raises an
\* error; no port stands in for the missing one.
C32_HttpPortRequired ==
    (/\ http.pc # "new"
     /\ Len(http.text) >= 2 /\ http.text[1] = "http" /\ http.text[2] = "://"
     /\ \A i \in 1..Len(http.text) : http.text[i] # ":")
        => (http.pc = "raised" /\ http.transport.exc # "")

\* C33: when the handler loop reads a message that is well formed and is no
\* Command where it expects a Command, it invokes no command, writes one
\* Error message and nothing else, and stays in its loop.
C33_NonCommandRefused ==
    [][(/\ peer = "snekrpc" /\ spc = "loop"
        /\ calls' = calls /\ nCalls' = nCalls /\ con' = con
        /\ ResHandshake(c2s, replied, srvCodec).st = "data"
        /\ c2s' = ResHandshake(c2s, replied, srvCodec).rest
        /\ RecvMsgData(ResHandshake(c2s, replied, srvCodec).data, srvCodec).st = "msg"
        /\ RecvMsgData(ResHandshake(c2s, replied, srvCodec).data, srvCodec).msg.tag
               # "CommandMessage") =>
          /\ Len(s2c') = Len(s2c) + 1
          /\ SubSeq(s2c', 1, Len(s2c)) = s2c
          /\ s2c'[Len(s2c')].kind = "enc"
          /\ DecodeMsg(s2c'[Len(s2c')].payload).tag = "ErrorMessage"
          /\ spc' = "loop"
          /\ srv'.cmd = srv.cmd /\ srv'.invoked = srv.invoked
          /\ srv'.got = srv.got /\ srv'.args = srv.args]_vars

\* The handler has read a message that was no Command, answered it with an
\* Error and is in its loop.
C33_Witness ==
    /\ srv.strays >= 1
    /\ resp # <<>>
    /\ resp[Len(resp)].tag = "ErrorMessage"
    /\ resp[Len(resp)].name = MessageError.name
    /\ spc = "loop"

\* C34: whatever the number of threads that call init(), at the same time or
\* one call after another, the import pass of each registry runs once, and
\* no get() or names() returns before every pass has been made.
C34_InitOnce ==
    /\ [](\A i \in 1..Len(RegistryNames) :
             /\ reg.passes[i] <= 1
             /\ reg.initialized => reg.passes[i] = 1)
    /\ [][\A t \in Threads :
             reg'.reads[t] > reg.reads[t] =>
                 \A i \in 1..Len(RegistryNames) : reg.passes[i] = 1]_vars

\* Both threads have called init(), one of them twice, and a thread has
\* read a registry.
C34_Witness ==
    /\ reg.initialized
    /\ \A t \in Threads : reg.inits[t] >= 1 /\ reg.pc[t] = "idle"
    /\ \E t \in Threads : reg.inits[t] >= 2
    /\ \E t \in Threads : reg.reads[t] >= 1
    /\ \A i \in 1..Len(RegistryNames) : reg.passes[i] = 1

C40_StopNotLost ==
    (serving.stops >= 1) ~>
        (serving.pc \in {"returned", "raised"} /\ serving.stopped)

\* The client and the server are each inside a send_msg whose direction of
\* the connection is full.
BothBlockedInSend ==
    /\ dual.cpc = "send" /\ Len(dual.c2s) = dual.cap
    /\ dual.spc \in {"start", "data", "end", "err"} /\ Len(dual.s2c) = dual.cap

\* C37: a call of dualstream on a connection with bounded buffers ends with
\* the caller having drawn every element it uploaded, in order, whatever the
\* length of the stream; the client and the server are never both blocked in
\* a send.
C37_DualStreamTerminates ==
    /\ []~BothBlockedInSend
    /\ <>(dual.cpc = "stopped" /\ dual.got = UploadItems(dual.n))

\* C38: when an attempt of a call with a stream argument has failed with a
\* TransportError and the retry policy repeats it, the repeated Command
\* uploads the elements the caller's stream had when the failed attempt
\* began: none that the failed attempt consumed is missing.
C38_RetryUploadsWholeStream ==
    [][\A k \in CallIds :
          (/\ calls[k].st = "retry"
           /\ calls'[k].retries = calls[k].retries + 1
           /\ calls'[k].st = "wait_resp") =>
             /\ Streams(calls'[k].args, calls'[k].kwargs)
                    = Streams(calls[k].args, calls[k].kwargs)
             /\ \E i \in 0..Len(c2s') :
                    SubSeq(c2s', i + 1, Len(c2s'))
                        = CallFrames(k, calls[k], cliCodec)]_vars

====
